---- MODULE Spec2Model ----
(***************************************************************************)
(* A model of custom_components/jablotron100/jablotron.py: the byte codec, *)
(* the section-state decoder, the state store with its durable mirror, the *)
(* long-lived read and keepalive loops, and the detection probes.          *)
(*                                                                         *)
(* The module holds several specifications, one per part of the program.   *)
(* Each specification moves its own group of variables and keeps the other *)
(* groups at a fixed idle value.                                           *)
(***************************************************************************)
EXTENDS Integers, Sequences, FiniteSets, TLC

VARIABLES
    \* the build
    byteorder,              \* sys.byteorder: "little" or "big"
    \* section-state decoder
    sec_pc,                 \* "packet" | "parsed" | "converted"
    section_packet,         \* the 2-byte slot of one section (shorter when truncated)
    section_state,          \* the dict returned by _parse_jablotron_section_state
    alarm_state,            \* result of _convert_jablotron_section_state_to_alarm_state
    problem_sensor_state,   \* result of ..._to_problem_sensor_state
    known,                  \* result of _is_known_section_state
    \* the packet builders and the device-number decoder, applied to one input
    codec_pc,               \* "idle" | "input" | "done"
    codec_op,               \* which function is applied
    codec_in,               \* its arguments
    codec_out,              \* its result
    \* engine: configuration, state store, durable mirror
    conf_devices,           \* self._config[CONF_DEVICES]: the type of each device
    eng_pc,                 \* how far initialize() has come: "down" .. "running"
    central_unit_model,     \* self._central_unit.model, NONE before detection
    alarm_control_panels,   \* the sections of self._alarm_control_panels, in order
    states,                 \* self.states: id -> state
    entities,               \* the ids of self._entities (the subscribers)
    stored_data,            \* self._stored_data[serial_port][STORAGE_STATES_KEY], when present
    aliased,                \* self.states is the very dict held in self._stored_data
    save_pending,           \* a delayed save of self._store is scheduled
    durable,                \* what the durable store holds for the serial port
    last_update_success,    \* self.last_update_success
    notified,               \* ids whose entity was written in the last step, in order
    store_calls,            \* calls of _store_state in the last step
    health_calls,           \* calls of _update_all_entities in the last step
    \* calls of _update_state made one after the other
    update_log,             \* the last two calls: arguments and what each did
    \* the two loops of the state checker and shutdown()
    stop_event,             \* self._state_checker_stop_event
    data_updating_event,    \* self._state_checker_data_updating_event
    rp_pc,                  \* where _read_packets stands
    ka_pc,                  \* where _keepalive stands
    counter,                \* the counter of _keepalive
    sd_pc,                  \* where shutdown() stands
    last_sent,              \* the last packet _send_packet wrote
    ka_packet,              \* the packet _keepalive has chosen and is about to write
    polls_since_heavy,      \* plain keepalives written since the last one with the code, -1 before it
    failures_since_heavy,   \* writes of _keepalive that failed since then
    \* a detection probe: its caller, its reader task and its writer task
    probe_kind,             \* which probe runs: "model", "central_unit" or "sections"
    timeout_is_oserror,     \* the build: concurrent.futures.TimeoutError is an OSError
    probe_stop_event,       \* the probe's stop_event
    main_pc,                \* where the probe's caller stands
    main_error,             \* the exception the caller has raised or is about to raise
    probe_result,           \* what reader.result(TIMEOUT) returned
    timed_out,              \* reader.result(TIMEOUT) raised its timeout
    preader_pc,             \* where reader_thread stands
    preader_exception,      \* the exception reader_thread ended with
    reader_locals,          \* the locals of reader_thread
    pwriter_pc,             \* where writer_thread stands
    \* the calls of _send_packet in progress
    send_pc                 \* per caller: "idle" | "opened" | "written"

build_vars == <<byteorder>>
section_vars == <<sec_pc, section_packet, section_state, alarm_state, problem_sensor_state, known>>
engine_vars == <<conf_devices, eng_pc, central_unit_model, alarm_control_panels, states, entities,
                 stored_data, aliased, save_pending, durable, last_update_success,
                 notified, store_calls, health_calls>>

update_vars == <<update_log>>

codec_vars == <<codec_pc, codec_op, codec_in, codec_out>>

loop_vars ==
    <<stop_event, data_updating_event, rp_pc, ka_pc, counter, sd_pc, last_sent, ka_packet,
      polls_since_heavy, failures_since_heavy>>

probe_vars == <<probe_kind, timeout_is_oserror, probe_stop_event, main_pc, main_error,
                probe_result, timed_out, preader_pc, preader_exception, reader_locals,
                pwriter_pc>>

send_vars == <<send_pc>>

vars == <<build_vars, section_vars, codec_vars, engine_vars, update_vars, loop_vars, probe_vars,
          send_vars>>

\* What the actions of one group of variables leave alone.
section_frame == <<codec_vars, engine_vars, update_vars, loop_vars, probe_vars, send_vars>>
engine_frame == <<build_vars, section_vars, codec_vars, update_vars, loop_vars, probe_vars, send_vars>>
update_frame == <<build_vars, section_vars, codec_vars, loop_vars, probe_vars, send_vars>>
loop_frame == <<build_vars, section_vars, codec_vars, update_vars, probe_vars, send_vars>>
probe_frame == <<build_vars, section_vars, codec_vars, engine_vars, update_vars, loop_vars, send_vars>>
codec_frame == <<section_vars, engine_vars, update_vars, loop_vars, probe_vars, send_vars>>
send_frame == <<build_vars, section_vars, codec_vars, update_vars, probe_vars>>

-----------------------------------------------------------------------------
(* Values *)

Byte == 0..255

NONE == "None"

STATE_ALARM_DISARMED == "disarmed"
STATE_ALARM_ARMED_AWAY == "armed_away"
STATE_ALARM_ARMED_NIGHT == "armed_night"
STATE_ALARM_ARMING == "arming"
STATE_ALARM_PENDING == "pending"
STATE_ALARM_TRIGGERED == "triggered"
STATE_OFF == "off"
STATE_ON == "on"

AlarmStates == {STATE_ALARM_DISARMED, STATE_ALARM_ARMED_AWAY, STATE_ALARM_ARMED_NIGHT,
                STATE_ALARM_ARMING, STATE_ALARM_PENDING, STATE_ALARM_TRIGGERED}

JABLOTRON_SECTION_PRIMARY_STATE_DISARMED == 1
JABLOTRON_SECTION_PRIMARY_STATE_ARMED_PARTIALLY == 2
JABLOTRON_SECTION_PRIMARY_STATE_ARMED_FULL == 3
JABLOTRON_SECTION_PRIMARY_STATE_TRIGGERED == 11
JABLOTRON_SECTION_PRIMARY_STATES ==
    {JABLOTRON_SECTION_PRIMARY_STATE_DISARMED, JABLOTRON_SECTION_PRIMARY_STATE_ARMED_PARTIALLY,
     JABLOTRON_SECTION_PRIMARY_STATE_ARMED_FULL, JABLOTRON_SECTION_PRIMARY_STATE_TRIGGERED}

JABLOTRON_SECTION_SECONDARY_STATE_OK == 0
JABLOTRON_SECTION_SECONDARY_STATE_TRIGGERED == 1
JABLOTRON_SECTION_SECONDARY_STATE_PROBLEM == 2
JABLOTRON_SECTION_SECONDARY_STATE_PENDING == 4
JABLOTRON_SECTION_SECONDARY_STATE_ARMING == 8
JABLOTRON_SECTION_SECONDARY_STATES ==
    {JABLOTRON_SECTION_SECONDARY_STATE_OK, JABLOTRON_SECTION_SECONDARY_STATE_TRIGGERED,
     JABLOTRON_SECTION_SECONDARY_STATE_PROBLEM, JABLOTRON_SECTION_SECONDARY_STATE_PENDING,
     JABLOTRON_SECTION_SECONDARY_STATE_ARMING}

JABLOTRON_SECTION_TERTIARY_STATE_OFF == 0
JABLOTRON_SECTION_TERTIARY_STATE_ON == 1
JABLOTRON_SECTION_TERTIARY_STATE_TRIGGERED == 17
JABLOTRON_SECTION_TERTIARY_STATES ==
    {JABLOTRON_SECTION_TERTIARY_STATE_OFF, JABLOTRON_SECTION_TERTIARY_STATE_ON,
     JABLOTRON_SECTION_TERTIARY_STATE_TRIGGERED}

-----------------------------------------------------------------------------
(* Byte codec *)

Min(a, b) == IF a < b THEN a ELSE b

\* Python's packet[a:b] for 0 <= a <= b: the bytes at offsets a..b-1 that exist.
Slice(packet, a, b) ==
    IF a >= Len(packet) THEN <<>> ELSE SubSeq(packet, a + 1, Min(b, Len(packet)))

\* Python's packet[a:]
SliceFrom(packet, a) == Slice(packet, a, Len(packet))

RECURSIVE FromBytesLittle(_)
FromBytesLittle(packet) ==
    IF packet = <<>> THEN 0 ELSE Head(packet) + 256 * FromBytesLittle(Tail(packet))

RECURSIVE FromBytesBig(_)
FromBytesBig(packet) ==
    IF packet = <<>> THEN 0
    ELSE 256 * FromBytesBig(SubSeq(packet, 1, Len(packet) - 1)) + packet[Len(packet)]

\* int.from_bytes(packet, byteorder=sys.byteorder)
_bytes_to_int(packet) ==
    IF byteorder = "little" THEN FromBytesLittle(packet) ELSE FromBytesBig(packet)

-----------------------------------------------------------------------------
(* Section state decoder *)

_parse_jablotron_section_state_nibbles_swapped(packet) ==
    LET number == _bytes_to_int(Slice(packet, 0, 1))
        primary_state == number \div 16
    IN  [primary |-> primary_state,
         secondary |-> number % 16,
         tertiary |-> _bytes_to_int(Slice(packet, 1, 2))]

_parse_jablotron_section_state(packet) ==
    LET number == _bytes_to_int(Slice(packet, 0, 1))
        primary_state == number % 16
        \* int((number - primary_state) / 16): the float quotient is exact here
        secondary_state == (number - primary_state) \div 16
    IN  [primary |-> primary_state,
         secondary |-> secondary_state,
         tertiary |-> _bytes_to_int(Slice(packet, 1, 2))]

_is_known_section_state(state) ==
    /\ state.primary \in JABLOTRON_SECTION_PRIMARY_STATES
    /\ state.secondary \in JABLOTRON_SECTION_SECONDARY_STATES
    /\ state.tertiary \in JABLOTRON_SECTION_TERTIARY_STATES

_convert_alarm_state_primary_first(state) ==
    IF state.primary = JABLOTRON_SECTION_PRIMARY_STATE_TRIGGERED
    THEN STATE_ALARM_TRIGGERED
    ELSE IF state.primary = JABLOTRON_SECTION_PRIMARY_STATE_ARMED_FULL
    THEN (IF state.tertiary = JABLOTRON_SECTION_TERTIARY_STATE_ON
          THEN STATE_ALARM_TRIGGERED ELSE STATE_ALARM_ARMED_AWAY)
    ELSE IF state.primary = JABLOTRON_SECTION_PRIMARY_STATE_ARMED_PARTIALLY
    THEN STATE_ALARM_ARMED_NIGHT
    ELSE IF state.secondary = JABLOTRON_SECTION_SECONDARY_STATE_TRIGGERED
    THEN STATE_ALARM_TRIGGERED
    ELSE IF state.secondary = JABLOTRON_SECTION_SECONDARY_STATE_ARMING
    THEN STATE_ALARM_ARMING
    ELSE IF state.secondary = JABLOTRON_SECTION_SECONDARY_STATE_PENDING
    THEN STATE_ALARM_PENDING
    ELSE STATE_ALARM_DISARMED

_convert_jablotron_section_state_to_alarm_state(state) ==
    IF \/ state.primary = JABLOTRON_SECTION_PRIMARY_STATE_TRIGGERED
       \/ state.secondary = JABLOTRON_SECTION_SECONDARY_STATE_TRIGGERED
    THEN STATE_ALARM_TRIGGERED
    ELSE IF state.secondary = JABLOTRON_SECTION_SECONDARY_STATE_ARMING
    THEN STATE_ALARM_ARMING
    ELSE IF state.secondary = JABLOTRON_SECTION_SECONDARY_STATE_PENDING
    THEN STATE_ALARM_PENDING
    ELSE IF state.primary = JABLOTRON_SECTION_PRIMARY_STATE_ARMED_FULL
    THEN (IF state.tertiary = JABLOTRON_SECTION_TERTIARY_STATE_ON
          THEN STATE_ALARM_TRIGGERED ELSE STATE_ALARM_ARMED_AWAY)
    ELSE IF state.primary = JABLOTRON_SECTION_PRIMARY_STATE_ARMED_PARTIALLY
    THEN STATE_ALARM_ARMED_NIGHT
    ELSE STATE_ALARM_DISARMED

_convert_jablotron_section_state_to_problem_sensor_state(state) ==
    IF state.secondary = JABLOTRON_SECTION_SECONDARY_STATE_PROBLEM THEN STATE_ON ELSE STATE_OFF

-----------------------------------------------------------------------------
(* Idle values: what a group of variables holds under a specification that *)
(* does not move it.                                                       *)

EmptyMap == [id \in {} |-> NONE]

\* An absent dict: self._stored_data without the serial port's states.
Absent == [has |-> FALSE, map |-> EmptyMap]

Present(map) == [has |-> TRUE, map |-> map]

SectionIdle ==
    /\ sec_pc = "idle"
    /\ section_packet = <<>>
    /\ section_state = NONE
    /\ alarm_state = NONE
    /\ problem_sensor_state = NONE
    /\ known = FALSE

CodecIdle ==
    /\ codec_pc = "idle"
    /\ codec_op = NONE
    /\ codec_in = NONE
    /\ codec_out = NONE

EngineIdle ==
    /\ conf_devices = <<>>
    /\ eng_pc = "idle"
    /\ central_unit_model = NONE
    /\ alarm_control_panels = <<>>
    /\ states = EmptyMap
    /\ entities = {}
    /\ stored_data = Absent
    /\ aliased = FALSE
    /\ save_pending = FALSE
    /\ durable = Absent
    /\ last_update_success = FALSE
    /\ notified = <<>>
    /\ store_calls = 0
    /\ health_calls = 0

UpdateIdle == update_log = <<>>

\* Jablotron.__init__: both events clear, no loop started, shutdown() not called.
LoopIdle ==
    /\ stop_event = FALSE
    /\ data_updating_event = FALSE
    /\ rp_pc = "idle"
    /\ ka_pc = "idle"
    /\ counter = 0
    /\ sd_pc = "idle"
    /\ last_sent = NONE
    /\ ka_packet = NONE
    /\ polls_since_heavy = -1
    /\ failures_since_heavy = 0

\* The callers of _send_packet: _keepalive, modify_alarm_control_panel_section_state
\* and shutdown().
Writers == {"keepalive", "command", "shutdown"}

\* No call of _send_packet is in progress.
SendIdle == send_pc = [w \in Writers |-> "idle"]

\* An Optional value: None, or a value.
NoValue == [has |-> FALSE, val |-> <<>>]

Some(val) == [has |-> TRUE, val |-> val]

\* The locals of a reader_thread before its loop.
ReaderLocalsInit ==
    [model |-> NoValue, hardware_version |-> NoValue, firmware_version |-> NoValue,
     states_packet |-> NoValue]

\* A probe that has not been called yet.
ProbeNotStarted ==
    /\ probe_stop_event = FALSE
    /\ main_pc = "idle"
    /\ main_error = NONE
    /\ probe_result = NoValue
    /\ timed_out = FALSE
    /\ preader_pc = "idle"
    /\ preader_exception = NONE
    /\ reader_locals = ReaderLocalsInit
    /\ pwriter_pc = "idle"

ProbeIdle ==
    /\ probe_kind = NONE
    /\ timeout_is_oserror = FALSE
    /\ ProbeNotStarted

-----------------------------------------------------------------------------
(* Configuration and identifiers *)

\* const.MAX_SECTIONS
MAX_SECTIONS == 16

DEVICE_KEYPAD == "keypad"
DEVICE_OTHER == "other"
DEVICE_EMPTY == "empty"
DEVICE_SIREN_OUTDOOR == "siren_outdoor"
\* one of the device types that is a real sensor
DEVICE_MOTION_DETECTOR == "motion_detector"

MODEL_LAN == "JA-101K-LAN"

\* self._config[CONF_NUMBER_OF_DEVICES]
CONF_NUMBER_OF_DEVICES == Len(conf_devices)

_create_section_alarm_id(section) == "section_" \o ToString(section)
_create_section_problem_sensor_id(section) == "section_problem_sensor_" \o ToString(section)
_create_device_sensor_id(device_number) == "device_sensor_" \o ToString(device_number)
_create_device_problem_sensor_id(device_number) == "device_problem_sensor_" \o ToString(device_number)
_create_lan_connection_id == "lan"

_get_device_type(number) == conf_devices[number]

_is_device_ignored(number) ==
    _get_device_type(number) \in {DEVICE_KEYPAD, DEVICE_OTHER, DEVICE_EMPTY}

_is_device_with_activity_sensor(number) ==
    _get_device_type(number) \notin {DEVICE_SIREN_OUTDOOR}

\* The LAN device number, 0 standing for None (0 is never compared equal to
\* a device number: _parse_device_state_packet returns on number 0 first).
_get_lan_connection_device_number ==
    IF central_unit_model = MODEL_LAN THEN 125 ELSE 0

-----------------------------------------------------------------------------
(* State store.  The operators work on a record of the fields one handler  *)
(* run can change:                                                         *)
(*   states, stored_data, save_pending, notified, store_calls.             *)

Put(map, id, state) ==
    [x \in (DOMAIN map) \cup {id} |-> IF x = id THEN state ELSE map[x]]

Store ==
    [states |-> states, stored_data |-> stored_data, save_pending |-> save_pending,
     notified |-> <<>>, store_calls |-> 0]

\* self.states[id] = state.  When self.states is the dict loaded from the
\* durable store, the write lands in self._stored_data as well.
SetState(st, id, state) ==
    LET map == Put(st.states, id, state)
    IN  [st EXCEPT !.states = map,
                   !.stored_data = IF aliased THEN Present(map) ELSE @]

_store_state(st, id, state) ==
    LET base == IF st.stored_data.has THEN st.stored_data.map ELSE EmptyMap
        map == Put(base, id, state)
    IN  [st EXCEPT !.stored_data = Present(map),
                   !.states = IF aliased THEN map ELSE @,
                   \* self._store.async_delay_save(self._data_to_store)
                   !.save_pending = TRUE,
                   !.store_calls = @ + 1]

_update_state_without_dedup(st, id, state, store_state) ==
    LET st1 == SetState(st, id, state)
        st2 == IF id \in entities THEN [st1 EXCEPT !.notified = Append(@, id)] ELSE st1
    IN  IF store_state THEN _store_state(st2, id, state) ELSE st2

_update_state(st, id, state, store_state) ==
    IF id \in DOMAIN st.states /\ st.states[id] = state
    THEN st
    ELSE LET st1 == SetState(st, id, state)
             st2 == IF id \in entities THEN [st1 EXCEPT !.notified = Append(@, id)] ELSE st1
         IN  IF store_state THEN _store_state(st2, id, state) ELSE st2

_set_initial_state(st, id, initial_state) ==
    IF id \in DOMAIN st.states
    THEN st     \* Loaded from stored data
    ELSE SetState(st, id, initial_state)

-----------------------------------------------------------------------------
(* Packet decoders of the read loop *)

JABLOTRON_PACKET_SECTIONS_STATES_PREFIX == <<81, 34>>
JABLOTRON_PACKET_DEVICES_STATES_PREFIX == <<216>>
JABLOTRON_PACKET_WIRED_DEVICE_STATE_PREFIX == <<85, 8>>
JABLOTRON_PACKET_WIRELESS_DEVICE_STATE_PREFIX == <<85, 9>>
JABLOTRON_PACKET_INFO_PREFIX == <<64>>
JABLOTRON_PACKETS_DEVICE_ACTIVITY ==
    {<<0>>, <<1>>, <<10>>, <<12>>, <<36>>, <<62>>, <<128>>, <<129>>, <<163>>, <<164>>, <<166>>, <<190>>}

\* The unused-section slot 07 00.
UnusedSection == <<7, 0>>

\* The slots of sections `section`, section + 1, ... in order, up to the first
\* unused slot or MAX_SECTIONS: element n of the result for section 1 is the
\* slot of section n.
RECURSIVE SectionSlotsFrom(_, _)
SectionSlotsFrom(packet, section) ==
    IF section > MAX_SECTIONS THEN <<>>
    ELSE LET state_offset == section * 2
             state == Slice(packet, state_offset, state_offset + 2)
         IN  IF state = UnusedSection THEN <<>>
             ELSE <<state>> \o SectionSlotsFrom(packet, section + 1)

\* A scan that takes the two bytes of the prefix for the slot of a section.
_parse_sections_states_packet_from_offset_0(packet) == SectionSlotsFrom(packet, 0)

_parse_sections_states_packet(packet) == SectionSlotsFrom(packet, 1)

\* The loop body with the problem sensor written for every secondary state.
UpdateSectionAlways(st, section, section_packet_) ==
    LET state == _parse_jablotron_section_state(section_packet_)
        st1 == _update_state(st, _create_section_alarm_id(section),
                             _convert_jablotron_section_state_to_alarm_state(state), FALSE)
    IN  _update_state(st1, _create_section_problem_sensor_id(section),
                      _convert_jablotron_section_state_to_problem_sensor_state(state), FALSE)

\* The body of the loop of _parse_section_states_packet for one section.
UpdateSection(st, section, section_packet_) ==
    LET state == _parse_jablotron_section_state(section_packet_)
        st1 == _update_state(st, _create_section_alarm_id(section),
                             _convert_jablotron_section_state_to_alarm_state(state), FALSE)
    IN  IF \/ state.secondary = JABLOTRON_SECTION_SECONDARY_STATE_OK
           \/ state.secondary = JABLOTRON_SECTION_SECONDARY_STATE_PROBLEM
        THEN _update_state(st1, _create_section_problem_sensor_id(section),
                           _convert_jablotron_section_state_to_problem_sensor_state(state), FALSE)
        ELSE st1

RECURSIVE UpdateSections(_, _, _)
UpdateSections(st, section_states, section) ==
    IF section > Len(section_states) THEN st
    ELSE \* one pass of the for loop: the section's states are written before
         \* the next section is looked at
         LET updated == UpdateSection(st, section, section_states[section])
         IN  IF DOMAIN updated.states # {}
             THEN UpdateSections(updated, section_states, section + 1)
             ELSE updated

_parse_section_states_packet(st, packet) ==
    UpdateSections(st, _parse_sections_states_packet(packet), 1)

_is_device_state_packet(prefix) ==
    \/ prefix = JABLOTRON_PACKET_WIRED_DEVICE_STATE_PREFIX
    \/ prefix = JABLOTRON_PACKET_WIRELESS_DEVICE_STATE_PREFIX

_is_device_state_packet_for_activity(packet) ==
    Slice(packet, 2, 3) \in JABLOTRON_PACKETS_DEVICE_ACTIVITY

_is_device_state_packet_for_sabotage(packet) ==
    _bytes_to_int(Slice(packet, 2, 3)) % 128 = 6

_is_device_state_packet_for_fault(packet) ==
    _bytes_to_int(Slice(packet, 2, 3)) % 128 = 7

\* The device-number decoder reading the byte pair one offset early.
_parse_device_number_from_offset_3(packet) ==
    _bytes_to_int(Slice(packet, 3, 5)) \div 64

\* int(_bytes_to_int(packet[4:6]) / 64)
_parse_device_number_from_state_packet(packet) ==
    _bytes_to_int(Slice(packet, 4, 6)) \div 64

_convert_jablotron_device_state_to_state(packet, device_number) ==
    LET state == _bytes_to_int(Slice(packet, 3, 4))
        high_device_number_offset ==
            IF device_number <= 36 THEN 0
            ELSE IF device_number <= 96 THEN -64
            ELSE -128
        device_states_offset == ((device_number + high_device_number_offset) * 4) + 104
        on_state == device_states_offset
        on_state_2 == device_states_offset + 1
        off_state == device_states_offset + 2
        off_state_2 == device_states_offset + 3
    IN  IF state = off_state \/ state = off_state_2 THEN STATE_OFF
        ELSE IF state = on_state \/ state = on_state_2 THEN STATE_ON
        ELSE NONE

\* A handler that does not ask whether the device has an activity sensor.
_parse_device_state_packet_activity_for_all(st, packet) ==
    LET device_number == _parse_device_number_from_state_packet(packet)
        is_lan_connection_device == _get_lan_connection_device_number = device_number
        device_state == _convert_jablotron_device_state_to_state(packet, device_number)
    IN  IF device_number = 0 THEN st
        ELSE IF ~is_lan_connection_device /\ device_number > CONF_NUMBER_OF_DEVICES THEN st
        ELSE IF ~is_lan_connection_device /\ _is_device_ignored(device_number) THEN st
        ELSE IF device_state = NONE THEN st
        ELSE IF is_lan_connection_device
        THEN _update_state(st, _create_lan_connection_id,
                           IF device_state = STATE_OFF THEN STATE_ON ELSE STATE_OFF, TRUE)
        ELSE IF _is_device_state_packet_for_activity(packet)
        THEN _update_state(st, _create_device_sensor_id(device_number), device_state, FALSE)
        ELSE IF \/ _is_device_state_packet_for_sabotage(packet)
                \/ _is_device_state_packet_for_fault(packet)
        THEN _update_state(st, _create_device_problem_sensor_id(device_number), device_state, TRUE)
        ELSE st

\* A handler that does not ask whether the device is ignored.
_parse_device_state_packet_of_ignored_too(st, packet) ==
    LET device_number == _parse_device_number_from_state_packet(packet)
        is_lan_connection_device == _get_lan_connection_device_number = device_number
        device_state == _convert_jablotron_device_state_to_state(packet, device_number)
    IN  IF device_number = 0 THEN st
        ELSE IF ~is_lan_connection_device /\ device_number > CONF_NUMBER_OF_DEVICES THEN st
        ELSE IF device_state = NONE THEN st
        ELSE IF is_lan_connection_device
        THEN _update_state(st, _create_lan_connection_id,
                           IF device_state = STATE_OFF THEN STATE_ON ELSE STATE_OFF, TRUE)
        ELSE IF /\ _is_device_with_activity_sensor(device_number)
                /\ _is_device_state_packet_for_activity(packet)
        THEN _update_state(st, _create_device_sensor_id(device_number), device_state, FALSE)
        ELSE IF \/ _is_device_state_packet_for_sabotage(packet)
                \/ _is_device_state_packet_for_fault(packet)
        THEN _update_state(st, _create_device_problem_sensor_id(device_number), device_state, TRUE)
        ELSE st

_parse_device_state_packet(st, packet) ==
    LET device_number == _parse_device_number_from_state_packet(packet)
        lan_connection_device_number == _get_lan_connection_device_number
        is_lan_connection_device == lan_connection_device_number = device_number
        device_state == _convert_jablotron_device_state_to_state(packet, device_number)
    IN  IF device_number = 0 THEN st
        ELSE IF ~is_lan_connection_device /\ device_number > CONF_NUMBER_OF_DEVICES THEN st
        ELSE IF ~is_lan_connection_device /\ _is_device_ignored(device_number) THEN st
        ELSE IF device_state = NONE THEN st
        ELSE IF is_lan_connection_device
        THEN _update_state(st, _create_lan_connection_id,
                           IF device_state = STATE_OFF THEN STATE_ON ELSE STATE_OFF, TRUE)
        ELSE IF /\ _is_device_with_activity_sensor(device_number)
                /\ _is_device_state_packet_for_activity(packet)
        THEN _update_state(st, _create_device_sensor_id(device_number), device_state, FALSE)
        ELSE IF \/ _is_device_state_packet_for_sabotage(packet)
                \/ _is_device_state_packet_for_fault(packet)
        THEN _update_state(st, _create_device_problem_sensor_id(device_number), device_state, TRUE)
        ELSE st

\* Bit i (0 the least significant) of a natural number.
BitOf(dec, i) == (dec \div (2 ^ i)) % 2

\* _hex_to_bin(hex)[i:(i + 1)] == "1": the string has one character per bit
\* of hex, least significant bit of the integer first (a lone "0" for an
\* empty hex), and a slice past its end is "".
HexToBinIsOne(hex, i) ==
    /\ i < Len(hex) * 8
    /\ BitOf(_bytes_to_int(hex), i) = 1

\* A loop that uses the ON state of a set bit as well.
RECURSIVE UpdateDevicesOnAndOff(_, _, _)
UpdateDevicesOnAndOff(st, hex, i) ==
    IF i > CONF_NUMBER_OF_DEVICES THEN st
    ELSE UpdateDevicesOnAndOff(
            _update_state(st, _create_device_sensor_id(i),
                          IF HexToBinIsOne(hex, i) THEN STATE_ON ELSE STATE_OFF, FALSE),
            hex, i + 1)

\* The loop over the devices of _parse_devices_states_packet, from device i.
RECURSIVE UpdateDevicesOff(_, _, _)
UpdateDevicesOff(st, hex, i) ==
    IF i > CONF_NUMBER_OF_DEVICES THEN st
    ELSE UpdateDevicesOff(
            IF HexToBinIsOne(hex, i) THEN st
            ELSE _update_state(st, _create_device_sensor_id(i), STATE_OFF, FALSE),
            hex, i + 1)

_parse_devices_states_packet(st, packet) ==
    LET states_start_packet == 3
        triggered_device_start_packet ==
            states_start_packet + _bytes_to_int(Slice(packet, 1, 2)) - 1
        hex == Slice(packet, states_start_packet, triggered_device_start_packet)
        st1 == IF _is_device_state_packet(Slice(packet, triggered_device_start_packet,
                                                triggered_device_start_packet + 2))
               THEN _parse_device_state_packet(st, SliceFrom(packet, triggered_device_start_packet))
               ELSE st
    IN  UpdateDevicesOff(st1, hex, 1)

\* Lines 572-576: every offset i of a device-state packet where the
\* sections-states prefix stands starts an embedded sections-states packet.
RECURSIVE ParseEmbeddedSections(_, _, _)
ParseEmbeddedSections(st, packet, i) ==
    IF i >= Len(packet) - 1 THEN st
    ELSE ParseEmbeddedSections(
            IF Slice(packet, i, i + 2) = JABLOTRON_PACKET_SECTIONS_STATES_PREFIX
            THEN _parse_section_states_packet(st, SliceFrom(packet, i))
            ELSE st,
            packet, i + 1)

\* The dispatch of one non-empty packet, lines 563-582.
DispatchPacket(st, packet) ==
    LET prefix == Slice(packet, 0, 2)
    IN  IF prefix = JABLOTRON_PACKET_SECTIONS_STATES_PREFIX
        THEN _parse_section_states_packet(st, packet)
        ELSE IF _is_device_state_packet(prefix)
        THEN ParseEmbeddedSections(_parse_device_state_packet(st, packet), packet, 0)
        ELSE IF Slice(packet, 0, 1) = JABLOTRON_PACKET_DEVICES_STATES_PREFIX
        THEN _parse_devices_states_packet(st, packet)
        ELSE st

-----------------------------------------------------------------------------
(* Specification of the section-state decoder: every slot of 0..2 bytes is *)
(* parsed and then converted.                                              *)

\* The longest slot _parse_sections_states_packet cuts: packet[2n:2n+2].
SlotLen == 2

SectionInit ==
    /\ byteorder \in {"little", "big"}
    /\ sec_pc = "packet"
    /\ \E n \in 0..SlotLen : section_packet \in [1..n -> Byte]
    /\ section_state = NONE
    /\ alarm_state = NONE
    /\ problem_sensor_state = NONE
    /\ known = FALSE
    /\ EngineIdle
    /\ CodecIdle
    /\ UpdateIdle
    /\ LoopIdle
    /\ SendIdle
    /\ ProbeIdle

ParseSectionState ==
    /\ sec_pc = "packet"
    /\ section_state' = _parse_jablotron_section_state(section_packet)
    /\ sec_pc' = "parsed"
    /\ UNCHANGED <<byteorder, section_packet, alarm_state, problem_sensor_state, known>>
    /\ UNCHANGED section_frame

ConvertSectionState ==
    /\ sec_pc = "parsed"
    /\ known' = _is_known_section_state(section_state)
    /\ alarm_state' = _convert_jablotron_section_state_to_alarm_state(section_state)
    /\ problem_sensor_state' = _convert_jablotron_section_state_to_problem_sensor_state(section_state)
    /\ sec_pc' = "converted"
    /\ UNCHANGED <<byteorder, section_packet, section_state>>
    /\ UNCHANGED section_frame

SectionNext == ParseSectionState \/ ConvertSectionState

SpecSection == SectionInit /\ [][SectionNext]_vars

-----------------------------------------------------------------------------
(* Claims about the section-state decoder *)

\* C1: the alarm state of every triplet follows the strict priority order:
\* primary 11 or secondary 1 gives triggered; else secondary 8 arming; else
\* secondary 4 pending; else primary 3 gives triggered when tertiary is 1 and
\* armed_away otherwise; else primary 2 armed_night; every other triplet,
\* unrecognized primaries included, disarmed.
C1_AlarmStatePriority ==
    sec_pc = "converted" =>
        LET p == section_state.primary
            s == section_state.secondary
            t == section_state.tertiary
            r1 == p = 11 \/ s = 1
            r2 == ~r1 /\ s = 8
            r3 == ~r1 /\ ~r2 /\ s = 4
            r4 == ~r1 /\ ~r2 /\ ~r3 /\ p = 3
            r5 == ~r1 /\ ~r2 /\ ~r3 /\ ~r4 /\ p = 2
        IN  /\ p \in 0..15 /\ s \in 0..15 /\ t \in 0..255
            /\ r1 => alarm_state = "triggered"
            /\ r2 => alarm_state = "arming"
            /\ r3 => alarm_state = "pending"
            /\ r4 /\ t = 1 => alarm_state = "triggered"
            /\ r4 /\ t # 1 => alarm_state = "armed_away"
            /\ r5 => alarm_state = "armed_night"
            /\ ~(r1 \/ r2 \/ r3 \/ r4 \/ r5) => alarm_state = "disarmed"
            /\ s = 1 => alarm_state = "triggered"

\* C1 witness: an armed section (primary 3, tertiary 0) whose secondary is
\* triggered has been converted to triggered.
C1_Witness ==
    /\ sec_pc = "converted"
    /\ section_state = [primary |-> 3, secondary |-> 1, tertiary |-> 0]
    /\ alarm_state = "triggered"

\* C2: every 2-byte record [b0, b1] decodes to primary = b0 mod 16,
\* secondary = (b0 - primary) / 16 and tertiary = b1, and a record outside
\* the known sets is still mapped to an alarm state.
C2_DecodeTotal ==
    Len(section_packet) = 2 =>
        /\ sec_pc = "packet" => ENABLED ParseSectionState
        /\ sec_pc = "parsed" => ENABLED ConvertSectionState
        /\ sec_pc \in {"parsed", "converted"} =>
            /\ section_state.primary \in 0..15
            /\ section_state.secondary \in 0..15
            /\ section_state.primary = section_packet[1] % 16
            /\ 16 * section_state.secondary + section_state.primary = section_packet[1]
            /\ section_state.tertiary = section_packet[2]
        /\ sec_pc = "converted" =>
            /\ alarm_state \in AlarmStates
            /\ problem_sensor_state \in {STATE_ON, STATE_OFF}

\* C2 witness: a record outside the known sets (primary 5, secondary 3,
\* tertiary 200) has been decoded and mapped.
C2_Witness ==
    /\ sec_pc = "converted"
    /\ section_packet = <<53, 200>>
    /\ section_state = [primary |-> 5, secondary |-> 3, tertiary |-> 200]
    /\ ~known
    /\ alarm_state = "disarmed"

-----------------------------------------------------------------------------
(* What the panel sends: the packets the model reads *)

\* The most sections the modelled panel has in use.
MaxPanelSections == 1

\* Slots of a section in use: disarmed, armed (away), disarmed with a
\* problem, armed and pending, arming, armed and triggered, and a record
\* outside the known sets (primary 5, secondary 3).
SectionSlots ==
    {<<1, 0>>, <<3, 0>>, <<33, 0>>, <<67, 0>>, <<129, 0>>, <<19, 1>>, <<53, 200>>}

RECURSIVE Flatten(_)
Flatten(seqs) == IF seqs = <<>> THEN <<>> ELSE Head(seqs) \o Flatten(Tail(seqs))

\* A sections-states packet: the prefix, one slot per section in use, and
\* the unused-section slot after them.
SectionsStatesPackets(slot_set, max) ==
    {JABLOTRON_PACKET_SECTIONS_STATES_PREFIX \o Flatten(slots) \o UnusedSection :
        slots \in UNION {[1..k -> slot_set] : k \in 0..max}}

\* The sections-states packets of the modelled panel.
PanelSectionsStatesPackets == SectionsStatesPackets(SectionSlots, MaxPanelSections)

\* Device numbers on the wire: the central unit (0), the configured devices,
\* one device past them, and the LAN device.
WireDeviceNumbers == (0..(CONF_NUMBER_OF_DEVICES + 1)) \cup {125}

\* The state byte the panel sends for a device: its on value, its off value,
\* or a value that is none of its four.
WireStateByte(device_number, kind) ==
    LET offset == IF device_number <= 36 THEN 0 ELSE IF device_number <= 96 THEN 64 ELSE 128
        first == ((device_number - offset) * 4) + 104
    IN  CASE kind = "on" -> first
          [] kind = "off" -> first + 2
          [] OTHER -> 0

\* Status bytes: activity, sabotage, and one that is neither activity,
\* sabotage nor fault.
WireStatusBytes == {0, 6, 2}

\* The panel puts the device number times 64 on the wire, low byte first.
DeviceStatePacket(device_number, status, kind) ==
    JABLOTRON_PACKET_WIRED_DEVICE_STATE_PREFIX
        \o <<status, WireStateByte(device_number, kind),
             (device_number * 64) % 256, (device_number * 64) \div 256>>

DeviceStatePackets ==
    {DeviceStatePacket(n, status, kind) :
        n \in WireDeviceNumbers, status \in WireStatusBytes, kind \in {"on", "off"}}
    \cup {DeviceStatePacket(1, 0, "other")}

\* A device-state packet with a sections-states packet behind it in the
\* same read.
DeviceStatePacketsWithSections ==
    {DeviceStatePacket(1, 0, "on") \o JABLOTRON_PACKET_SECTIONS_STATES_PREFIX \o slot \o UnusedSection :
        slot \in {<<3, 0>>, <<67, 0>>}}

\* An aggregate devices-states packet: prefix, length, one byte, the
\* bitfield (one byte here), and possibly a device-state packet behind it.
DevicesStatesPackets ==
    {JABLOTRON_PACKET_DEVICES_STATES_PREFIX \o <<2, 0, bits>> \o tail :
        bits \in {0, 2}, tail \in {<<>>, DeviceStatePacket(1, 0, "on")}}

\* A packet of no kind the read loop knows: an info packet.
UnclassifiedPackets == {JABLOTRON_PACKET_INFO_PREFIX \o <<1, 2>>}

\* What a read of the read loop may return; <<>> is the empty read.
ReadPackets ==
    {<<>>} \cup PanelSectionsStatesPackets \cup DeviceStatePackets
        \cup DeviceStatePacketsWithSections \cup DevicesStatesPackets \cup UnclassifiedPackets

-----------------------------------------------------------------------------
(* The packet builders: the code packet and the arm/disarm command, and    *)
(* the device-number decoder, each applied to one input.                   *)

\* int.to_bytes(number, 1, byteorder=sys.byteorder): the one byte, or
\* OverflowError (ok FALSE) for a number outside 0..255.
_int_to_bytes(number) ==
    IF number \in Byte THEN [ok |-> TRUE, bytes |-> <<number>>]
    ELSE [ok |-> FALSE, bytes |-> <<>>]

\* The loop body with the two digits of a byte in each other's place.
_create_code_packet_digits_swapped(code) ==
    LET code_number(i) ==
            LET j == i + 4
                first_number == Slice(code, j, j + 1)
                second_number == Slice(code, i, i + 1)
            IN  IF first_number = <<>> THEN 48 + second_number[1]
                ELSE 16 * second_number[1] + first_number[1]
    IN  <<128, 8, 3, 57, 57, 57>>
            \o _int_to_bytes(code_number(0)).bytes \o _int_to_bytes(code_number(1)).bytes
            \o _int_to_bytes(code_number(2)).bytes \o _int_to_bytes(code_number(3)).bytes

\* A code is the sequence of its digits.  int(f"{first_number}{second_number}", 16)
\* of two decimal digits is 16 * first_number + second_number.
_create_code_packet(code) ==
    LET code_number(i) ==
            LET j == i + 4
                first_number == Slice(code, j, j + 1)
                second_number == Slice(code, i, i + 1)
            IN  IF first_number = <<>> THEN 48 + second_number[1]
                ELSE 16 * first_number[1] + second_number[1]
    IN  <<128, 8, 3, 57, 57, 57>>
            \o _int_to_bytes(code_number(0)).bytes \o _int_to_bytes(code_number(1)).bytes
            \o _int_to_bytes(code_number(2)).bytes \o _int_to_bytes(code_number(3)).bytes

\* The command with the night base one slot (16) too low.
modify_alarm_control_panel_section_state_night_base_low(section, state, code) ==
    LET int_packets == CASE state = STATE_ALARM_DISARMED -> 143
                         [] state = STATE_ALARM_ARMED_AWAY -> 159
                         [] state = STATE_ALARM_ARMED_NIGHT -> 159
        state_packet == _int_to_bytes(int_packets + section)
    IN  [ok |-> state_packet.ok,
         packet |-> IF state_packet.ok
                    THEN _create_code_packet(code) \o <<128, 2, 13>> \o state_packet.bytes
                    ELSE <<>>]

\* The packet modify_alarm_control_panel_section_state sends; ok is FALSE
\* when _int_to_bytes raises.
modify_alarm_control_panel_section_state(section, state, code) ==
    LET int_packets == CASE state = STATE_ALARM_DISARMED -> 143
                         [] state = STATE_ALARM_ARMED_AWAY -> 159
                         [] state = STATE_ALARM_ARMED_NIGHT -> 175
        state_packet == _int_to_bytes(int_packets + section)
    IN  [ok |-> state_packet.ok,
         packet |-> IF state_packet.ok
                    THEN _create_code_packet(code) \o <<128, 2, 13>> \o state_packet.bytes
                    ELSE <<>>]

\* The highest device number the modelled panel sends.
MaxWireDeviceNumber == 125

\* The most slots in use a modelled sections-states packet carries: two
\* past const.MAX_SECTIONS.
MaxWireSections == 18

\* The inputs of the functions.  A code has four digits and up to four
\* more.  The byte pair of a device-state packet holds number * 64 plus six
\* low bits, in the byte order of the host.  A sections-states packet has
\* some slots in use and then the unused slot, the unused slot with
\* another used slot behind it, nothing, half a slot, or the bytes 07 00
\* astride two slots.  A device-state packet may carry any state byte.
CodecInputs(op) ==
    CASE op = "command" ->
            {[section |-> section, state |-> state, code |-> <<1, 2, 3, 4>>] :
                section \in 1..MAX_SECTIONS,
                state \in {STATE_ALARM_DISARMED, STATE_ALARM_ARMED_AWAY, STATE_ALARM_ARMED_NIGHT}}
      [] op = "code" ->
            {[code |-> low \o high] :
                low \in [1..4 -> {0, 1, 2, 3, 4, 9}],
                high \in UNION {[1..k -> {0, 1, 9}] : k \in 0..4}}
      [] op = "sections" ->
            {[packet |-> JABLOTRON_PACKET_SECTIONS_STATES_PREFIX
                            \o Flatten([n \in 1..used |-> slot]) \o tail] :
                used \in 0..MaxWireSections,
                slot \in {<<1, 0>>, <<19, 1>>, <<7, 1>>, <<0, 7>>},
                tail \in {<<>>, <<7, 0>>, <<7, 0, 3, 0>>, <<7>>, <<1, 7, 0, 3>>}}
      [] op = "device_state" ->
            {[number |-> number,
              packet |-> JABLOTRON_PACKET_WIRED_DEVICE_STATE_PREFIX \o <<0, state>>] :
                number \in 1..MaxWireDeviceNumber, state \in Byte}
      [] OTHER ->
            {[number |-> number, low |-> low,
              packet |-> JABLOTRON_PACKET_WIRED_DEVICE_STATE_PREFIX \o <<0, 108>>
                            \o (LET value == number * 64 + low
                                IN  IF byteorder = "little"
                                    THEN <<value % 256, value \div 256>>
                                    ELSE <<value \div 256, value % 256>>)] :
                number \in 1..MaxWireDeviceNumber, low \in 0..63}

CodecInit ==
    /\ byteorder \in {"little", "big"}
    /\ SectionIdle
    /\ EngineIdle
    /\ UpdateIdle
    /\ LoopIdle
    /\ SendIdle
    /\ ProbeIdle
    /\ codec_pc = "input"
    /\ codec_op \in {"command", "code", "device_number", "sections", "device_state"}
    /\ codec_in \in CodecInputs(codec_op)
    /\ codec_out = NONE

ModifyAlarmControlPanelSectionState ==
    /\ codec_pc = "input"
    /\ codec_op = "command"
    /\ codec_out' = modify_alarm_control_panel_section_state(
                        codec_in.section, codec_in.state, codec_in.code)
    /\ codec_pc' = "done"
    /\ UNCHANGED <<byteorder, codec_op, codec_in>>
    /\ UNCHANGED codec_frame

CreateCodePacket ==
    /\ codec_pc = "input"
    /\ codec_op = "code"
    /\ codec_out' = _create_code_packet(codec_in.code)
    /\ codec_pc' = "done"
    /\ UNCHANGED <<byteorder, codec_op, codec_in>>
    /\ UNCHANGED codec_frame

ParseDeviceNumberFromStatePacket ==
    /\ codec_pc = "input"
    /\ codec_op = "device_number"
    /\ codec_out' = _parse_device_number_from_state_packet(codec_in.packet)
    /\ codec_pc' = "done"
    /\ UNCHANGED <<byteorder, codec_op, codec_in>>
    /\ UNCHANGED codec_frame

ParseSectionsStatesPacket ==
    /\ codec_pc = "input"
    /\ codec_op = "sections"
    /\ codec_out' = _parse_sections_states_packet(codec_in.packet)
    /\ codec_pc' = "done"
    /\ UNCHANGED <<byteorder, codec_op, codec_in>>
    /\ UNCHANGED codec_frame

ConvertJablotronDeviceStateToState ==
    /\ codec_pc = "input"
    /\ codec_op = "device_state"
    /\ codec_out' = _convert_jablotron_device_state_to_state(codec_in.packet, codec_in.number)
    /\ codec_pc' = "done"
    /\ UNCHANGED <<byteorder, codec_op, codec_in>>
    /\ UNCHANGED codec_frame

CodecNext ==
    \/ ModifyAlarmControlPanelSectionState
    \/ CreateCodePacket
    \/ ParseDeviceNumberFromStatePacket
    \/ ParseSectionsStatesPacket
    \/ ConvertJablotronDeviceStateToState

SpecCodec == CodecInit /\ [][CodecNext]_vars

\* C13: the arm/disarm command ends in one byte, base + section with base
\* 143 for disarm, 159 for arm-away and 175 for arm-night: for every target
\* state and every section in 1..MAX_SECTIONS the value fits in a byte, no
\* other (target state, section) pair gives the same packet, and decoding
\* the byte by its range gives back the pair.
C13_CommandByteInjective ==
    (codec_pc = "done" /\ codec_op = "command") =>
        LET targets == {"disarmed", "armed_away", "armed_night"}
            base(target) == IF target = "disarmed" THEN 143
                            ELSE IF target = "armed_away" THEN 159 ELSE 175
            byte == codec_out.packet[Len(codec_out.packet)]
            decoded_target == IF byte > 175 THEN "armed_night"
                              ELSE IF byte > 159 THEN "armed_away" ELSE "disarmed"
        IN  /\ codec_out.ok
            /\ Len(codec_out.packet) = 14
            /\ SubSeq(codec_out.packet, 11, 13) = <<128, 2, 13>>
            /\ byte = base(codec_in.state) + codec_in.section
            /\ byte \in 0..255
            /\ decoded_target = codec_in.state
            /\ byte - base(decoded_target) = codec_in.section
            /\ \A target \in targets, section \in 1..MAX_SECTIONS :
                  modify_alarm_control_panel_section_state(section, target, codec_in.code).packet
                        = codec_out.packet
                     => (target = codec_in.state /\ section = codec_in.section)

\* C13 witness: disarming the last section gives byte 159, the base of
\* arm-away.
C13_Witness ==
    /\ codec_pc = "done"
    /\ codec_op = "command"
    /\ codec_in.state = "disarmed"
    /\ codec_in.section = 16
    /\ codec_out.ok
    /\ codec_out.packet[14] = 159

\* C14: for every code of 4 to 8 digits the code packet is the fixed prefix
\* 80 08 03 39 39 39 followed by exactly 4 bytes; byte i (0..3) is
\* 48 + digit i when the code has no digit i + 4, and 16 * digit (i + 4) +
\* digit i otherwise; for the code 1234 byte 0 is 0x31.
C14_CodePacketLayout ==
    (codec_pc = "done" /\ codec_op = "code") =>
        LET code == codec_in.code
        IN  /\ Len(code) \in 4..8
            /\ Len(codec_out) = 10
            /\ SubSeq(codec_out, 1, 6) = <<128, 8, 3, 57, 57, 57>>
            /\ \A i \in 0..3 :
                  /\ codec_out[7 + i] \in 0..255
                  /\ codec_out[7 + i] =
                        (IF Len(code) < i + 5 THEN 48 + code[i + 1]
                         ELSE 16 * code[i + 5] + code[i + 1])
            /\ code = <<1, 2, 3, 4>> => codec_out[7] = 49

\* C14 witness: the packet of the code 1234 has been built, its payload
\* 31 32 33 34.
C14_Witness ==
    /\ codec_pc = "done"
    /\ codec_op = "code"
    /\ codec_in.code = <<1, 2, 3, 4>>
    /\ SubSeq(codec_out, 7, 10) = <<49, 50, 51, 52>>

\* C15: a device-state packet whose byte pair at offsets 4..5 holds
\* number * 64 decodes to device number `number`, for every number of the
\* panel (1, 36, 37, 96, 97, 125 among them), whatever the six low bits of
\* the pair.
C15_DeviceNumberRoundTrip ==
    (codec_pc = "done" /\ codec_op = "device_number") => codec_out = codec_in.number

\* C15 witness: device 97 with low bits 63 has been decoded.
C15_Witness ==
    /\ codec_pc = "done"
    /\ codec_op = "device_number"
    /\ codec_in.number = 97
    /\ codec_in.low = 63
    /\ codec_out = 97

\* C21: parsing a sections-states packet yields exactly the sections 1..k,
\* k the smaller of MAX_SECTIONS and the number of slots before the first
\* slot equal to 07 00; the record of section n is the slot at offset 2n of
\* the packet (two bytes wherever the packet reaches that far), and no
\* section at or after the first 07 00 slot is returned.
C21_SectionsUpToSentinel ==
    (codec_pc = "done" /\ codec_op = "sections") =>
        LET packet == codec_in.packet
            slot(n) == Slice(packet, 2 * n, 2 * n + 2)
            sentinels == {n \in 1..MAX_SECTIONS : slot(n) = <<7, 0>>}
            k == IF sentinels = {} THEN MAX_SECTIONS
                 ELSE (CHOOSE n \in sentinels : \A m \in sentinels : n <= m) - 1
        IN  /\ DOMAIN codec_out = 1..k
            /\ k <= MAX_SECTIONS
            /\ \A n \in 1..k :
                  /\ codec_out[n] = slot(n)
                  /\ codec_out[n] # <<7, 0>>
                  /\ Len(packet) >= 2 * n + 2 =>
                        codec_out[n] = <<packet[2 * n + 1], packet[2 * n + 2]>>

\* C21 witness: a packet with two sections in use, the unused slot and one
\* more slot behind it has been parsed into the two sections.
C21_Witness ==
    /\ codec_pc = "done"
    /\ codec_op = "sections"
    /\ codec_in.packet = <<81, 34, 19, 1, 19, 1, 7, 0, 3, 0>>
    /\ codec_out = <<<<19, 1>>, <<19, 1>>>>

\* C25: every device number 1..125 has a reachable on state and a
\* reachable off state: its four candidate values, (number + correction of
\* its band) * 4 + 104 and the three after it, lie in 0..255, the first two
\* decode to on and the last two to off.
C25_EveryDeviceHasOnAndOff ==
    codec_op = "device_state" =>
        LET number == codec_in.number
            state == codec_in.packet[4]
            correction == IF number <= 36 THEN 0 ELSE IF number <= 96 THEN -64 ELSE -128
            first == ((number + correction) * 4) + 104
        IN  /\ number \in 1..125
            /\ \A candidate \in first..(first + 3) : candidate \in 0..255
            /\ codec_pc = "done" =>
                  /\ state \in {first, first + 1} => codec_out = STATE_ON
                  /\ state \in {first + 2, first + 3} => codec_out = STATE_OFF

-----------------------------------------------------------------------------
(* The engine: startup, the read loop's iteration, subscription, the       *)
(* delayed save and a restart of the host.                                 *)

EngineConfigs == {<<DEVICE_MOTION_DETECTOR, DEVICE_KEYPAD>>}

EngineModels == {MODEL_LAN}

\* Jablotron.__init__ on a host whose durable store is empty.
\* What the durable store may hold when the host starts: nothing, or the
\* states an earlier run saved.
InitialDurables ==
    {Absent, Present([id \in {_create_device_problem_sensor_id(1)} |-> STATE_ON])}

\* Jablotron.__init__
EngineInit ==
    /\ conf_devices \in EngineConfigs
    /\ eng_pc = "down"
    /\ central_unit_model = NONE
    /\ alarm_control_panels = <<>>
    /\ states = EmptyMap
    /\ entities = {}
    /\ stored_data = Absent
    /\ aliased = FALSE
    /\ save_pending = FALSE
    /\ last_update_success = FALSE
    /\ notified = <<>>
    /\ store_calls = 0
    /\ health_calls = 0

NoEffects ==
    /\ notified' = <<>>
    /\ store_calls' = 0
    /\ health_calls' = 0

\* What a handler run leaves behind.
Commit(st) ==
    /\ states' = st.states
    /\ stored_data' = st.stored_data
    /\ save_pending' = st.save_pending
    /\ notified' = st.notified
    /\ store_calls' = st.store_calls

LoadStoredData ==
    /\ eng_pc = "down"
    /\ stored_data' = durable
    /\ IF durable.has
       THEN states' = durable.map /\ aliased' = TRUE
       ELSE states' = states /\ aliased' = FALSE
    /\ eng_pc' = "loaded"
    /\ NoEffects
    /\ UNCHANGED <<conf_devices, central_unit_model, alarm_control_panels, entities,
                   save_pending, durable, last_update_success>>
    /\ UNCHANGED engine_frame

\* _detect_central_unit, when the probe succeeds.
DetectCentralUnit(model) ==
    /\ eng_pc = "loaded"
    /\ central_unit_model' = model
    /\ eng_pc' = "central_unit"
    /\ NoEffects
    /\ UNCHANGED <<conf_devices, alarm_control_panels, states, entities, stored_data, aliased,
                   save_pending, durable, last_update_success>>
    /\ UNCHANGED engine_frame

RECURSIVE InitialSections(_, _, _)
InitialSections(st, section_states, section) ==
    IF section > Len(section_states) THEN st
    ELSE LET state == _parse_jablotron_section_state(section_states[section])
             st1 == _set_initial_state(st, _create_section_alarm_id(section),
                        _convert_jablotron_section_state_to_alarm_state(state))
             st2 == _set_initial_state(st1, _create_section_problem_sensor_id(section),
                        _convert_jablotron_section_state_to_problem_sensor_state(state))
         IN  InitialSections(st2, section_states, section + 1)

\* _detect_sections, when the probe returns sections_states_packet.
DetectSections(sections_states_packet) ==
    /\ eng_pc = "central_unit"
    /\ LET section_states == _parse_sections_states_packet(sections_states_packet)
       IN  /\ alarm_control_panels' = [n \in 1..Len(section_states) |-> n]
           /\ Commit(InitialSections(Store, section_states, 1))
    /\ eng_pc' = "sections"
    /\ health_calls' = 0
    /\ UNCHANGED <<conf_devices, central_unit_model, entities, aliased, durable,
                   last_update_success>>
    /\ UNCHANGED engine_frame

RECURSIVE InitialDevices(_, _)
InitialDevices(st, number) ==
    IF number > CONF_NUMBER_OF_DEVICES THEN st
    ELSE IF _is_device_ignored(number) THEN InitialDevices(st, number + 1)
    ELSE LET st1 == _set_initial_state(st, _create_device_sensor_id(number), STATE_OFF)
             st2 == _set_initial_state(st1, _create_device_problem_sensor_id(number), STATE_OFF)
         IN  InitialDevices(st2, number + 1)

_create_lan_connection(st) ==
    IF _get_lan_connection_device_number = 0 THEN st
    ELSE _set_initial_state(st, _create_lan_connection_id, STATE_ON)

\* The rest of initialize(): _create_devices, _create_lan_connection, the
\* start of the two loops, last_update_success = True.
CreateDevices ==
    /\ eng_pc = "sections"
    /\ Commit(_create_lan_connection(InitialDevices(Store, 1)))
    /\ last_update_success' = TRUE
    /\ eng_pc' = "running"
    /\ health_calls' = 0
    /\ UNCHANGED <<conf_devices, central_unit_model, alarm_control_panels, entities, aliased,
                   durable>>
    /\ UNCHANGED engine_frame

\* The ids of the controls the engine hands to the platforms.
ControlIds ==
    {_create_section_alarm_id(alarm_control_panels[i]) : i \in DOMAIN alarm_control_panels}
    \cup {_create_section_problem_sensor_id(alarm_control_panels[i]) : i \in DOMAIN alarm_control_panels}
    \cup {_create_device_sensor_id(n) :
            n \in {m \in DOMAIN conf_devices :
                     ~_is_device_ignored(m) /\ _is_device_with_activity_sensor(m)}}
    \cup {_create_device_problem_sensor_id(n) :
            n \in {m \in DOMAIN conf_devices : ~_is_device_ignored(m)}}
    \cup (IF _get_lan_connection_device_number = 0 THEN {} ELSE {_create_lan_connection_id})

\* JablotronEntity.async_added_to_hass -> substribe_entity_for_updates, for
\* the entity of every control in `control_ids`: the host adds the entities
\* of the platforms in one go.
SubscribeEntities(control_ids) ==
    /\ eng_pc = "running"
    /\ control_ids # {}
    /\ control_ids \cap entities = {}
    /\ entities' = entities \cup control_ids
    /\ NoEffects
    /\ UNCHANGED <<conf_devices, eng_pc, central_unit_model, alarm_control_panels, states,
                   stored_data, aliased, save_pending, durable, last_update_success>>
    /\ UNCHANGED engine_frame

\* What one iteration of the inner loop of _read_packets does to the engine
\* when its read returns `packet`, lines 552-582.
ReadPacketStep(packet) ==
    /\ eng_pc = "running"
    /\ IF packet = <<>>
       THEN /\ last_update_success' = FALSE
            /\ health_calls' = 1
            /\ Commit(Store)
       ELSE /\ last_update_success' = TRUE
            /\ health_calls' = IF last_update_success = FALSE THEN 1 ELSE 0
            /\ Commit(DispatchPacket(Store, packet))
    /\ UNCHANGED <<conf_devices, eng_pc, central_unit_model, alarm_control_panels, entities,
                   aliased, durable>>

\* One iteration of the inner loop of _read_packets whose read returns
\* `packet`, lines 547-582.
ReadPacket(packet) ==
    /\ ReadPacketStep(packet)
    /\ UNCHANGED engine_frame

\* What an iteration whose read raises does to the engine, lines 584-587.
ReadErrorStep ==
    /\ eng_pc = "running"
    /\ last_update_success' = FALSE
    /\ health_calls' = 1
    /\ notified' = <<>>
    /\ store_calls' = 0
    /\ UNCHANGED <<conf_devices, eng_pc, central_unit_model, alarm_control_panels, states,
                   entities, stored_data, aliased, save_pending, durable>>

\* An iteration whose read raises (the device is gone): lines 584-587.
ReadError ==
    /\ ReadErrorStep
    /\ UNCHANGED engine_frame

\* The delayed save of storage.Store fires: _data_to_store is written out.
DelayedSave ==
    /\ save_pending
    /\ durable' = stored_data
    /\ save_pending' = FALSE
    /\ NoEffects
    /\ UNCHANGED <<conf_devices, eng_pc, central_unit_model, alarm_control_panels, states,
                   entities, stored_data, aliased, last_update_success>>
    /\ UNCHANGED engine_frame

\* The host restarts: a new Jablotron object, the durable store kept.
Restart ==
    /\ eng_pc = "running"
    /\ eng_pc' = "down"
    /\ central_unit_model' = NONE
    /\ alarm_control_panels' = <<>>
    /\ states' = EmptyMap
    /\ entities' = {}
    /\ stored_data' = Absent
    /\ aliased' = FALSE
    /\ save_pending' = FALSE
    /\ last_update_success' = FALSE
    /\ NoEffects
    /\ UNCHANGED <<conf_devices, durable>>
    /\ UNCHANGED engine_frame

\* One run of the engine: startup, then the read loop reading whatever the
\* panel sends, entities subscribing, the delayed save firing.
Init ==
    /\ byteorder = "little"
    /\ SectionIdle
    /\ CodecIdle
    /\ UpdateIdle
    /\ LoopIdle
    /\ SendIdle
    /\ ProbeIdle
    /\ EngineInit
    /\ durable \in InitialDurables

Next ==
    \/ LoadStoredData
    \/ \E model \in EngineModels : DetectCentralUnit(model)
    \/ \E packet \in PanelSectionsStatesPackets : DetectSections(packet)
    \/ CreateDevices
    \/ SubscribeEntities(ControlIds)
    \/ \E packet \in ReadPackets : ReadPacket(packet)
    \/ ReadError

Spec == Init /\ [][Next]_vars

\* The engine across restarts of the host, on a panel with one section that
\* is disarmed or armed, one device and the LAN module.
RestartSectionSlots == {<<1, 0>>, <<3, 0>>}

RestartReadPackets ==
    SectionsStatesPackets(RestartSectionSlots, 1)
        \cup {DeviceStatePacket(n, 6, kind) : n \in {1, 125}, kind \in {"on", "off"}}

InitRestart ==
    /\ byteorder = "little"
    /\ SectionIdle
    /\ CodecIdle
    /\ UpdateIdle
    /\ LoopIdle
    /\ SendIdle
    /\ ProbeIdle
    /\ EngineInit
    /\ durable = Absent

NextRestart ==
    \/ LoadStoredData
    \/ \E model \in EngineModels : DetectCentralUnit(model)
    \/ \E packet \in SectionsStatesPackets(RestartSectionSlots, 1) : DetectSections(packet)
    \/ CreateDevices
    \/ \E packet \in RestartReadPackets : ReadPacket(packet)
    \/ DelayedSave
    \/ Restart

SpecRestart == InitRestart /\ [][NextRestart]_vars

-----------------------------------------------------------------------------
(* Claims about the read loop's handling of sections-states packets *)

\* C3: when the read loop processes a sections-states packet, every section
\* in it gets its alarm state updated; a section whose secondary state is
\* pending (4), arming (8) or triggered (1) keeps its stored problem-sensor
\* state and its problem-sensor entity is not written; the problem-sensor
\* state is written only when secondary is ok (0) or problem (2), and is on
\* iff secondary is problem.
C3_ProblemFlagSkipped ==
    [][\A packet \in PanelSectionsStatesPackets :
          ReadPacket(packet) =>
            LET slots == [n \in 1..((Len(packet) - 4) \div 2) |-> Slice(packet, 2 * n, 2 * n + 2)]
            IN  \A n \in DOMAIN slots :
                  LET secondary == slots[n][1] \div 16
                      alarm_id == "section_" \o ToString(n)
                      problem_id == "section_problem_sensor_" \o ToString(n)
                      kept == /\ problem_id \in DOMAIN states <=> problem_id \in DOMAIN states'
                              /\ problem_id \in DOMAIN states => states'[problem_id] = states[problem_id]
                              /\ \A i \in DOMAIN notified' : notified'[i] # problem_id
                  IN  /\ alarm_id \in DOMAIN states'
                      /\ states'[alarm_id] =
                            _convert_jablotron_section_state_to_alarm_state(
                                [primary |-> slots[n][1] % 16, secondary |-> secondary,
                                 tertiary |-> slots[n][2]])
                      /\ secondary \in {1, 4, 8} => kept
                      /\ secondary \notin {0, 2} => kept
                      /\ secondary \in {0, 2} =>
                            /\ problem_id \in DOMAIN states'
                            /\ states'[problem_id] = (IF secondary = 2 THEN "on" ELSE "off")
      ]_vars

\* C3 witness: section 1 is pending while its problem sensor, set by an
\* earlier packet, is still on.
C3_Witness ==
    /\ eng_pc = "running"
    /\ "section_1" \in DOMAIN states
    /\ "section_problem_sensor_1" \in DOMAIN states
    /\ states["section_1"] = "pending"
    /\ states["section_problem_sensor_1"] = "on"

-----------------------------------------------------------------------------
(* Calls of _update_state one after the other, on a started engine *)

\* The ids, values and flags the calls are made with.
\* The last two entries of a log.
LastTwo(log) == IF Len(log) > 2 THEN Tail(log) ELSE log

\* One call self._update_state(id, state, store_state); the log keeps, for
\* the call, whether the id had a subscriber, whether the value equalled
\* the stored one, whether any field changed, and how many entity writes
\* and _store_state calls it made.
UpdateState(id, state, store_state) ==
    /\ eng_pc = "running"
    /\ LET st == _update_state(Store, id, state, store_state)
       IN  /\ Commit(st)
           /\ update_log' = LastTwo(Append(update_log,
                  [id |-> id, state |-> state, store_state |-> store_state,
                   subscribed |-> id \in entities,
                   equal |-> id \in DOMAIN states /\ states[id] = state,
                   changed |-> \/ st.states # states
                               \/ st.stored_data # stored_data
                               \/ st.save_pending # save_pending,
                   notified |-> Len(st.notified),
                   store_calls |-> st.store_calls]))
    /\ health_calls' = 0
    /\ UNCHANGED <<conf_devices, eng_pc, central_unit_model, alarm_control_panels, entities,
                   aliased, durable, last_update_success>>
    /\ UNCHANGED update_frame

NextUpdate ==
    \/ LoadStoredData
    \/ \E model \in EngineModels : DetectCentralUnit(model)
    \/ \E packet \in SectionsStatesPackets(RestartSectionSlots, 1) : DetectSections(packet)
    \/ CreateDevices
    \/ SubscribeEntities(ControlIds)
    \/ \E id \in {_create_lan_connection_id, _create_device_sensor_id(1)},
          state \in {STATE_ON, STATE_OFF}, store_state \in BOOLEAN :
          UpdateState(id, state, store_state)

SpecUpdate == Init /\ [][NextUpdate]_vars

\* C4: calling the update twice in a row with the same id and value: the
\* second call changes nothing, notifies nobody and stores nothing; over the
\* two calls the subscriber of the id is notified exactly once when the
\* first call changed the value (never when there is no subscriber or the
\* value was already stored) and at most one persistence write is made.
\* Any call whose value equals the stored value is a no-op, flagged
\* persistent or not.
C4_UpdateIdempotent ==
    /\ \A i \in DOMAIN update_log :
          update_log[i].equal =>
            /\ ~update_log[i].changed
            /\ update_log[i].notified = 0
            /\ update_log[i].store_calls = 0
    /\ (/\ Len(update_log) = 2
        /\ update_log[1].id = update_log[2].id
        /\ update_log[1].state = update_log[2].state) =>
          /\ update_log[2].equal
          /\ ~update_log[2].changed
          /\ update_log[1].notified + update_log[2].notified =
                (IF update_log[1].subscribed /\ ~update_log[1].equal THEN 1 ELSE 0)
          /\ update_log[1].store_calls + update_log[2].store_calls <= 1
          /\ update_log[1].store_calls + update_log[2].store_calls =
                (IF update_log[1].store_state /\ ~update_log[1].equal THEN 1 ELSE 0)

\* C4 witness: the LAN id, subscribed, was updated twice in a row to "off",
\* both calls flagged persistent; the first changed the value.
C4_Witness ==
    /\ Len(update_log) = 2
    /\ update_log[1].id = "lan" /\ update_log[2].id = "lan"
    /\ update_log[1].state = "off" /\ update_log[2].state = "off"
    /\ update_log[1].store_state /\ update_log[2].store_state
    /\ update_log[1].subscribed
    /\ ~update_log[1].equal
    /\ update_log[1].notified = 1

-----------------------------------------------------------------------------
(* Claims about the durable store and the health flag *)

\* C5: across load-at-startup, updates and restarts the durable store holds
\* only ids whose update is flagged persistent (the LAN connection id and
\* the device problem-sensor ids), and after every start a section's alarm
\* state is the one derived from the initial sections-states packet, not a
\* restored one.
C5_VolatileNotMirrored ==
    [][/\ durable'.has =>
            DOMAIN durable'.map \subseteq
                ({"lan"} \cup {"device_problem_sensor_" \o ToString(n) : n \in DOMAIN conf_devices})
       /\ \A packet \in SectionsStatesPackets(RestartSectionSlots, 1) :
            DetectSections(packet) =>
                \A n \in 1..((Len(packet) - 4) \div 2) :
                    states'["section_" \o ToString(n)] =
                        _convert_jablotron_section_state_to_alarm_state(
                            [primary |-> packet[2 * n + 1] % 16,
                             secondary |-> packet[2 * n + 1] \div 16,
                             tertiary |-> packet[2 * n + 2]])
      ]_vars

\* C6: health notifications of the read loop are edge-triggered: with
\* entities subscribed, a read notifies them of the health exactly once when
\* it changes the health flag (ok to degraded on an empty read, degraded to
\* ok on a non-empty read) and not at all when it leaves the flag as it was.
C6_HealthEdgeTriggered ==
    [][\A packet \in ReadPackets :
          (ReadPacket(packet) /\ entities # {}) =>
              health_calls' = (IF last_update_success' # last_update_success THEN 1 ELSE 0)
      ]_vars

-----------------------------------------------------------------------------
(* The entities of the platforms: what a subscriber can do to the engine *)

\* JablotronEntity.update_state(state), called on the subscribed entity of
\* control `id`: self._jablotron.states[self._control.id] = state, then
\* self.async_write_ha_state().
EntityUpdateState(id, state) ==
    /\ eng_pc = "running"
    /\ id \in entities
    /\ Commit([SetState(Store, id, state) EXCEPT !.notified = <<id>>])
    /\ health_calls' = 0
    /\ UNCHANGED <<conf_devices, eng_pc, central_unit_model, alarm_control_panels, entities,
                   aliased, durable, last_update_success>>
    /\ UNCHANGED engine_frame

\* What the read loop reads here: the packets of a panel with one section
\* and one device, a sections-states packet cut short before its unused
\* slot (the read returned only part of it), and a device-state packet
\* with such a packet behind it.
EntityReadPackets ==
    RestartReadPackets
        \cup {JABLOTRON_PACKET_SECTIONS_STATES_PREFIX \o <<1, 0>>,
              DeviceStatePacket(1, 0, "on") \o JABLOTRON_PACKET_SECTIONS_STATES_PREFIX \o <<3, 0>>}

\* A started engine with its entities subscribed: the read loop reads and
\* the platforms call update_state on their entities.
NextEntity ==
    \/ LoadStoredData
    \/ \E model \in EngineModels : DetectCentralUnit(model)
    \/ \E packet \in SectionsStatesPackets(RestartSectionSlots, 1) : DetectSections(packet)
    \/ CreateDevices
    \/ SubscribeEntities(ControlIds)
    \/ \E packet \in EntityReadPackets : ReadPacket(packet)
    \/ \E id \in entities, state \in {STATE_ALARM_ARMING, STATE_ALARM_DISARMED} :
          EntityUpdateState(id, state)

SpecEntity == Init /\ [][NextEntity]_vars

\* C12: the state map is never mutated from outside the engine: its writes
\* come from startup seeding and from the read loop's decoders through the
\* deduplicating update, and no operation a subscriber or platform can
\* reach (subscribing an entity, calling an entity's update_state) changes
\* a stored state.
C12_StatesOwnedByEngine ==
    [][(\/ SubscribeEntities(ControlIds)
        \/ \E id \in entities, state \in {STATE_ALARM_ARMING, STATE_ALARM_DISARMED} :
              EntityUpdateState(id, state))
          => states' = states
      ]_vars

\* C20: sections are fixed after startup: whatever packets the read loop
\* has processed, truncated sections-states packets and ones embedded in a
\* device-state buffer included, the section alarm ids and section problem
\* ids in the state map are exactly those of the sections enumerated from
\* the initial sections-states packet.
C20_SectionsFixed ==
    eng_pc = "running" =>
        \A n \in 1..MAX_SECTIONS :
            LET enumerated == \E i \in DOMAIN alarm_control_panels : alarm_control_panels[i] = n
            IN  /\ ("section_" \o ToString(n)) \in DOMAIN states <=> enumerated
                /\ ("section_problem_sensor_" \o ToString(n)) \in DOMAIN states <=> enumerated

-----------------------------------------------------------------------------
(* The device packets of the read loop, on a panel with a motion detector, *)
(* a keypad and an outdoor siren, with or without the LAN module.          *)

\* Device-state packets of the central unit (0), the three devices, a
\* device past them and device 125; the status byte is one of activity,
\* of sabotage, of fault (with the high bit) or none of them; the state
\* byte is the device's on value, its off value or none of its four.
DeviceWirePackets ==
    {DeviceStatePacket(n, status, kind) :
        n \in (0..4) \cup {125}, status \in {0, 6, 135, 2}, kind \in {"on", "off", "other"}}

\* Aggregate devices-states packets: the bitfield is one byte (bit 0 is no
\* device's, bits 1 to 3 are the three devices'), or empty; behind it
\* nothing, or the device-state packet of the triggered device.
DevicesWirePackets ==
    {JABLOTRON_PACKET_DEVICES_STATES_PREFIX \o <<2, 0, bits>> \o tail :
        bits \in {2 * b : b \in 0..7},
        tail \in {<<>>, DeviceStatePacket(1, 0, "on"), DeviceStatePacket(3, 6, "on")}}
    \cup {JABLOTRON_PACKET_DEVICES_STATES_PREFIX \o <<1, 0>>}

InitDevice ==
    /\ byteorder = "little"
    /\ SectionIdle
    /\ CodecIdle
    /\ UpdateIdle
    /\ LoopIdle
    /\ SendIdle
    /\ ProbeIdle
    /\ conf_devices = <<DEVICE_MOTION_DETECTOR, DEVICE_KEYPAD, DEVICE_SIREN_OUTDOOR>>
    /\ eng_pc = "down"
    /\ central_unit_model = NONE
    /\ alarm_control_panels = <<>>
    /\ states = EmptyMap
    /\ entities = {}
    /\ stored_data = Absent
    /\ aliased = FALSE
    /\ save_pending = FALSE
    /\ last_update_success = FALSE
    /\ notified = <<>>
    /\ store_calls = 0
    /\ health_calls = 0
    /\ durable = Absent

NextDevice ==
    \/ LoadStoredData
    \/ \E model \in {MODEL_LAN, "JA-101K"} : DetectCentralUnit(model)
    \/ DetectSections(JABLOTRON_PACKET_SECTIONS_STATES_PREFIX \o <<1, 0>> \o UnusedSection)
    \/ CreateDevices
    \/ SubscribeEntities(ControlIds)
    \/ \E packet \in DeviceWirePackets : ReadPacket(packet)
    \/ \E packet \in DevicesWirePackets : ReadPacket(packet)

SpecDevice == InitDevice /\ [][NextDevice]_vars

\* C22: a device-state packet of an addressed device (the LAN device, or a
\* configured device that is not ignored) with a state byte among the
\* device's four values changes at most one id: the LAN connection id for
\* device 125 of the LAN model; else the activity-sensor id when the device
\* has an activity sensor and the status byte is an activity one; else the
\* problem-sensor id when the status byte mod 128 is 6 or 7; else none.
\* The id gets the decoded state (the LAN id its inverse) and nobody else
\* is notified.
C22_DeviceStatePriority ==
    [][\A packet \in DeviceWirePackets :
            LET status == packet[3]
                state == packet[4]
                n == (packet[5] + 256 * packet[6]) \div 64
                first == (IF n <= 36 THEN n ELSE IF n <= 96 THEN n - 64 ELSE n - 128) * 4 + 104
                decoded == IF state \in {first, first + 1} THEN "on" ELSE "off"
                is_lan == central_unit_model = "JA-101K-LAN" /\ n = 125
                configured == n \in 1..Len(conf_devices)
                addressed ==
                    is_lan \/ (configured /\ conf_devices[n] \notin {"keypad", "other", "empty"})
                target ==
                    IF is_lan THEN "lan"
                    ELSE IF conf_devices[n] # "siren_outdoor"
                            /\ status \in {0, 1, 10, 12, 36, 62, 128, 129, 163, 164, 166, 190}
                    THEN "device_sensor_" \o ToString(n)
                    ELSE IF status % 128 \in {6, 7}
                    THEN "device_problem_sensor_" \o ToString(n)
                    ELSE "None"
            IN  (addressed /\ state \in first..(first + 3) /\ ReadPacket(packet)) =>
                    /\ DOMAIN states' = DOMAIN states
                    /\ \A id \in DOMAIN states : states'[id] # states[id] => id = target
                    /\ target # "None" =>
                          states'[target] =
                              (IF ~is_lan THEN decoded ELSE IF decoded = "off" THEN "on" ELSE "off")
                    /\ notified' \in {<<>>, <<target>>}
      ]_vars

\* C22 witness: on the LAN model, with the entities subscribed, the packet
\* of device 125 has turned the LAN connection off and the LAN entity was
\* the one notified.
C22_Witness ==
    /\ eng_pc = "running"
    /\ central_unit_model = MODEL_LAN
    /\ states[_create_lan_connection_id] = STATE_OFF
    /\ notified = <<_create_lan_connection_id>>

\* C23: a device-state packet changes nothing in the state map and notifies
\* nobody when its device number is 0, when the number is past the
\* configured devices and is not the LAN device, when the device is a
\* keypad, other or empty, or when the state byte is none of the four
\* values of the device.
C23_DeviceStateIgnored ==
    [][\A packet \in DeviceWirePackets :
            LET state == packet[4]
                n == (packet[5] + 256 * packet[6]) \div 64
                first == (IF n <= 36 THEN n ELSE IF n <= 96 THEN n - 64 ELSE n - 128) * 4 + 104
                is_lan == central_unit_model = "JA-101K-LAN" /\ n = 125
                configured == n \in 1..Len(conf_devices)
            IN  (/\ \/ n = 0
                    \/ ~configured /\ ~is_lan
                    \/ configured /\ conf_devices[n] \in {"keypad", "other", "empty"}
                    \/ state \notin first..(first + 3)
                 /\ ReadPacket(packet)) =>
                    /\ states' = states
                    /\ notified' = <<>>
                    /\ store_calls' = 0
      ]_vars

\* C23 witness: the motion detector and the siren's problem sensor are on,
\* the entities subscribed, and the last packet read notified nobody and
\* stored nothing.
C23_Witness ==
    /\ eng_pc = "running"
    /\ _create_device_sensor_id(1) \in entities
    /\ states[_create_device_sensor_id(1)] = STATE_ON
    /\ states[_create_device_problem_sensor_id(3)] = STATE_ON
    /\ notified = <<>>
    /\ store_calls = 0
    /\ last_update_success

\* C24: the bitfield of an aggregate devices-states packet only turns
\* activity sensors off: after the packet a configured device whose bit is
\* 0 (or has no bit) is off; one whose bit is 1 has the state it had,
\* unless the device-state packet behind the bitfield is about it; and no
\* activity sensor goes to on but by that device-state packet.
C24_BitfieldOnlyOff ==
    [][\A packet \in DevicesWirePackets :
          ReadPacket(packet) =>
            LET length == packet[2]
                bitfield == SubSeq(packet, 4, 2 + length)
                tail == SubSeq(packet, 3 + length, Len(packet))
                tail_device == IF Len(tail) >= 6 /\ SubSeq(tail, 1, 2) \in {<<85, 8>>, <<85, 9>>}
                               THEN (tail[5] + 256 * tail[6]) \div 64 ELSE 0
                bit(i) == IF i \div 8 < Len(bitfield)
                          THEN (bitfield[(i \div 8) + 1] \div (2 ^ (i % 8))) % 2 ELSE 0
            IN  \A i \in 1..Len(conf_devices) :
                    LET id == "device_sensor_" \o ToString(i)
                    IN  /\ bit(i) = 0 => (id \in DOMAIN states' /\ states'[id] = "off")
                        /\ (bit(i) = 1 /\ tail_device # i) =>
                              /\ id \in DOMAIN states' <=> id \in DOMAIN states
                              /\ id \in DOMAIN states => states'[id] = states[id]
                        /\ (id \in DOMAIN states' /\ states'[id] = "on") =>
                              \/ id \in DOMAIN states /\ states[id] = "on"
                              \/ tail_device = i /\ bit(i) = 1
      ]_vars

\* C24 witness: the motion detector was on; a bitfield step has left it on
\* (its bit set) while the siren's activity id is off.
C24_Witness ==
    /\ eng_pc = "running"
    /\ states[_create_device_sensor_id(1)] = STATE_ON
    /\ states[_create_device_sensor_id(3)] = STATE_OFF
    /\ _create_device_sensor_id(2) \in DOMAIN states

\* C27: the device ids of the state map are those startup seeded: whatever
\* device-state and aggregate packets the read loop has processed, the map
\* holds an activity-sensor or problem-sensor id only for a configured
\* device that is not a keypad, other or empty.
C27_DeviceIdsFixed ==
    eng_pc = "running" =>
        \A n \in 1..MaxWireDeviceNumber :
            LET seeded == n \in 1..Len(conf_devices)
                            /\ conf_devices[n] \notin {"keypad", "other", "empty"}
            IN  /\ ("device_sensor_" \o ToString(n)) \in DOMAIN states <=> seeded
                /\ ("device_problem_sensor_" \o ToString(n)) \in DOMAIN states <=> seeded

-----------------------------------------------------------------------------
(* The two loops of the state checker and shutdown().  Each loop is a      *)
(* thread; an action is one step of one thread.                            *)

\* if counter == 60: counter = 0
KeepaliveCounterWrap == 60

\* How many writes of _keepalive may fail between two keepalives with the
\* code.
MaxWriteFailures == 2

\* The packets the loops and shutdown() write, each named by its bytes in
\* hexadecimal: only which packet was written matters here.
JABLOTRON_PACKET_GET_SECTIONS_STATES == "80 01 01 52 01 0e"

\* _create_code_packet(password) + 52 02 13 05 9a, and the plain keepalive.
KeepaliveWithCode == "code 52 02 13 05 9a"
KeepalivePlain == "52 01 02"

_is_alarm_active ==
    \E i \in DOMAIN alarm_control_panels :
        LET section_alarm_id == _create_section_alarm_id(alarm_control_panels[i])
        IN  \/ states[section_alarm_id] = STATE_ALARM_TRIGGERED
            \/ states[section_alarm_id] = STATE_ALARM_PENDING

\* Whether the inner loop of _read_packets leaves by a break after `packet`.
InnerLoopBreaks(packet) ==
    \/ packet = <<>>
    \/ Slice(packet, 0, 2) = JABLOTRON_PACKET_SECTIONS_STATES_PREFIX
    \/ _is_device_state_packet(Slice(packet, 0, 2))
    \/ Slice(packet, 0, 1) = JABLOTRON_PACKET_DEVICES_STATES_PREFIX

\* What the reads of the loop may return: nothing, a sections-states packet
\* (section 1 disarmed, or armed and triggered), an unclassified packet.
LoopSectionsStatesPackets ==
    {JABLOTRON_PACKET_SECTIONS_STATES_PREFIX \o slot \o UnusedSection : slot \in {<<1, 0>>, <<19, 1>>}}

LoopReadPackets == {<<>>} \cup LoopSectionsStatesPackets \cup UnclassifiedPackets

\* The pool starts _read_packets: the stream is opened.
ReaderStart ==
    /\ eng_pc = "running"
    /\ rp_pc = "idle"
    /\ rp_pc' = "outer"
    /\ UNCHANGED <<stop_event, data_updating_event, ka_pc, counter, sd_pc, last_sent>>
    /\ UNCHANGED <<ka_packet, polls_since_heavy, failures_since_heavy>>
    /\ UNCHANGED <<engine_vars, loop_frame>>

\* The pool starts _read_packets and the open of line 532, which stands
\* before the loop and outside its try, raises (the device has gone since
\* the probes): the task ends with the exception.
ReaderStartError ==
    /\ eng_pc = "running"
    /\ rp_pc = "idle"
    /\ rp_pc' = "exited"
    /\ UNCHANGED <<stop_event, data_updating_event, ka_pc, counter, sd_pc, last_sent>>
    /\ UNCHANGED <<ka_packet, polls_since_heavy, failures_since_heavy>>
    /\ UNCHANGED <<engine_vars, loop_frame>>

\* while not self._state_checker_stop_event.is_set()
ReaderCheckStop ==
    /\ rp_pc = "outer"
    /\ rp_pc' = IF stop_event THEN "exited" ELSE "inner"
    /\ UNCHANGED <<stop_event, data_updating_event, ka_pc, counter, sd_pc, last_sent>>
    /\ UNCHANGED <<ka_packet, polls_since_heavy, failures_since_heavy>>
    /\ UNCHANGED <<engine_vars, loop_frame>>

\* The top of the inner loop: the event is cleared and the read entered.
ReaderClear ==
    /\ rp_pc = "inner"
    /\ data_updating_event' = FALSE
    /\ rp_pc' = "read"
    /\ UNCHANGED <<stop_event, ka_pc, counter, sd_pc, last_sent>>
    /\ UNCHANGED <<ka_packet, polls_since_heavy, failures_since_heavy>>
    /\ UNCHANGED <<engine_vars, loop_frame>>

\* The blocking read returns `packet`: the event is set, which wakes a
\* _keepalive waiting on it (its wait returns True), and the packet is
\* handled; the inner loop is left by a break or goes round again.
ReaderRead(packet) ==
    /\ rp_pc = "read"
    /\ ReadPacketStep(packet)
    /\ data_updating_event' = TRUE
    /\ ka_pc' = IF ka_pc = "waiting" THEN "sleep" ELSE ka_pc
    /\ rp_pc' = IF InnerLoopBreaks(packet) THEN "sleep" ELSE "inner"
    /\ UNCHANGED <<stop_event, counter, sd_pc, last_sent>>
    /\ UNCHANGED <<ka_packet, polls_since_heavy, failures_since_heavy>>
    /\ UNCHANGED loop_frame

\* The blocking read raises.
ReaderReadError ==
    /\ rp_pc = "read"
    /\ ReadErrorStep
    /\ rp_pc' = "sleep"
    /\ UNCHANGED <<stop_event, data_updating_event, ka_pc, counter, sd_pc, last_sent>>
    /\ UNCHANGED <<ka_packet, polls_since_heavy, failures_since_heavy>>
    /\ UNCHANGED loop_frame

\* time.sleep(0.5) is over.
ReaderSleep ==
    /\ rp_pc = "sleep"
    /\ rp_pc' = "outer"
    /\ UNCHANGED <<stop_event, data_updating_event, ka_pc, counter, sd_pc, last_sent>>
    /\ UNCHANGED <<ka_packet, polls_since_heavy, failures_since_heavy>>
    /\ UNCHANGED <<engine_vars, loop_frame>>

\* The pool starts _keepalive.
KeepaliveStart ==
    /\ eng_pc = "running"
    /\ ka_pc = "idle"
    /\ ka_pc' = "check"
    /\ counter' = 0
    /\ UNCHANGED <<stop_event, data_updating_event, rp_pc, sd_pc, last_sent>>
    /\ UNCHANGED <<ka_packet, polls_since_heavy, failures_since_heavy>>
    /\ UNCHANGED <<engine_vars, loop_frame>>

KeepaliveCheckStop ==
    /\ ka_pc = "check"
    /\ ka_pc' = IF stop_event THEN "exited" ELSE "wait"
    /\ UNCHANGED <<stop_event, data_updating_event, rp_pc, counter, sd_pc, last_sent>>
    /\ UNCHANGED <<ka_packet, polls_since_heavy, failures_since_heavy>>
    /\ UNCHANGED <<engine_vars, loop_frame>>

\* A wait that does not look at the event when it is entered.
KeepaliveWaitBegin_ignoring_signal ==
    /\ ka_pc = "wait"
    /\ ka_pc' = "waiting"
    /\ UNCHANGED <<stop_event, data_updating_event, rp_pc, counter, sd_pc, last_sent>>
    /\ UNCHANGED <<ka_packet, polls_since_heavy, failures_since_heavy>>
    /\ UNCHANGED <<engine_vars, loop_frame>>

\* self._state_checker_data_updating_event.wait(0.5) is entered: with the
\* event set it returns True at once, else the thread waits.
KeepaliveWaitBegin ==
    /\ ka_pc = "wait"
    /\ ka_pc' = IF data_updating_event THEN "sleep" ELSE "waiting"
    /\ UNCHANGED <<stop_event, data_updating_event, rp_pc, counter, sd_pc, last_sent>>
    /\ UNCHANGED <<ka_packet, polls_since_heavy, failures_since_heavy>>
    /\ UNCHANGED <<engine_vars, loop_frame>>

\* A choice that does not ask whether an alarm is active.
KeepaliveWaitTimeout_ignoring_alarm ==
    /\ ka_pc = "waiting"
    /\ ka_packet' = IF counter = 0 THEN KeepaliveWithCode ELSE KeepalivePlain
    /\ ka_pc' = "send"
    /\ UNCHANGED <<stop_event, data_updating_event, rp_pc, counter, sd_pc, last_sent>>
    /\ UNCHANGED <<polls_since_heavy, failures_since_heavy>>
    /\ UNCHANGED <<engine_vars, loop_frame>>

\* The wait times out (nothing set the event for 0.5 s) and returns False:
\* the packet to write is chosen.
KeepaliveWaitTimeout ==
    /\ ka_pc = "waiting"
    /\ ka_packet' = IF counter = 0 /\ ~_is_alarm_active THEN KeepaliveWithCode ELSE KeepalivePlain
    /\ ka_pc' = "send"
    /\ UNCHANGED <<stop_event, data_updating_event, rp_pc, counter, sd_pc, last_sent>>
    /\ UNCHANGED <<polls_since_heavy, failures_since_heavy>>
    /\ UNCHANGED <<engine_vars, loop_frame>>

\* self._send_packet(...) writes the chosen packet, or raises and the error
\* is logged; either way counter += 1, and 60 wraps to 0.
KeepaliveSent(written) ==
    /\ ka_pc = "send"
    /\ written \/ failures_since_heavy < MaxWriteFailures
    /\ last_sent' = IF written THEN ka_packet ELSE last_sent
    /\ polls_since_heavy' =
          IF ~written THEN polls_since_heavy
          ELSE IF ka_packet = KeepaliveWithCode THEN 0
          ELSE IF polls_since_heavy = -1 THEN -1
          ELSE IF polls_since_heavy < KeepaliveCounterWrap THEN polls_since_heavy + 1
          ELSE polls_since_heavy
    /\ failures_since_heavy' =
          IF ~written THEN failures_since_heavy + 1
          ELSE IF ka_packet = KeepaliveWithCode THEN 0
          ELSE failures_since_heavy
    /\ counter' = IF counter + 1 = KeepaliveCounterWrap THEN 0 ELSE counter + 1
    /\ ka_packet' = NONE
    /\ ka_pc' = "check"
    /\ UNCHANGED <<stop_event, data_updating_event, rp_pc, sd_pc>>

\* The call of _send_packet in _keepalive taken as one step.
KeepaliveSend(written) ==
    /\ KeepaliveSent(written)
    /\ UNCHANGED <<engine_vars, loop_frame>>

\* The wait returned True: time.sleep(1), nothing is written.
KeepaliveSleep ==
    /\ ka_pc = "sleep"
    /\ ka_pc' = "check"
    /\ UNCHANGED <<stop_event, data_updating_event, rp_pc, counter, sd_pc, last_sent>>
    /\ UNCHANGED <<ka_packet, polls_since_heavy, failures_since_heavy>>
    /\ UNCHANGED <<engine_vars, loop_frame>>

\* shutdown(): self._state_checker_stop_event.set()
ShutdownSetStop ==
    /\ eng_pc = "running"
    /\ sd_pc = "idle"
    /\ stop_event' = TRUE
    /\ sd_pc' = "send"
    /\ UNCHANGED <<data_updating_event, rp_pc, ka_pc, counter, last_sent>>
    /\ UNCHANGED <<ka_packet, polls_since_heavy, failures_since_heavy>>
    /\ UNCHANGED <<engine_vars, loop_frame>>

\* shutdown(): self._send_packet(JABLOTRON_PACKET_GET_SECTIONS_STATES), the
\* write succeeding.
ShutdownSent ==
    /\ sd_pc = "send"
    /\ last_sent' = JABLOTRON_PACKET_GET_SECTIONS_STATES
    /\ sd_pc' = "join"
    /\ UNCHANGED <<stop_event, data_updating_event, rp_pc, ka_pc, counter>>
    /\ UNCHANGED <<ka_packet, polls_since_heavy, failures_since_heavy>>

\* The call of _send_packet in shutdown() taken as one step.
ShutdownSend ==
    /\ ShutdownSent
    /\ UNCHANGED <<engine_vars, loop_frame>>

\* shutdown(): self._state_checker_thread_pool_executor.shutdown() returns
\* once every task of the pool has ended.
ShutdownJoin ==
    /\ sd_pc = "join"
    /\ rp_pc = "exited"
    /\ ka_pc = "exited"
    /\ sd_pc' = "returned"
    /\ UNCHANGED <<stop_event, data_updating_event, rp_pc, ka_pc, counter, last_sent>>
    /\ UNCHANGED <<ka_packet, polls_since_heavy, failures_since_heavy>>
    /\ UNCHANGED <<engine_vars, loop_frame>>

\* The engine starts on a panel with section 1 disarmed and an empty
\* durable store; then the loops run and shutdown() may be called.
InitLoop ==
    /\ byteorder = "little"
    /\ SectionIdle
    /\ CodecIdle
    /\ UpdateIdle
    /\ LoopIdle
    /\ SendIdle
    /\ ProbeIdle
    /\ EngineInit
    /\ durable = Absent

NextLoop ==
    \/ LoadStoredData
    \/ \E model \in EngineModels : DetectCentralUnit(model)
    \/ DetectSections(JABLOTRON_PACKET_SECTIONS_STATES_PREFIX \o <<1, 0>> \o UnusedSection)
    \/ CreateDevices
    \/ ReaderStart
    \/ ReaderStartError
    \/ ReaderCheckStop
    \/ ReaderClear
    \/ \E packet \in LoopReadPackets : ReaderRead(packet)
    \/ ReaderReadError
    \/ ReaderSleep
    \/ KeepaliveStart
    \/ KeepaliveCheckStop
    \/ KeepaliveWaitBegin
    \/ KeepaliveWaitTimeout
    \/ \E written \in BOOLEAN : KeepaliveSend(written)
    \/ KeepaliveSleep
    \/ ShutdownSetStop
    \/ ShutdownSend
    \/ ShutdownJoin

\* The threads of the program run on: every step a thread can take by
\* itself is taken eventually.  Nothing obliges the panel to send, so the
\* return of a blocking read carries no fairness, nor does the host's
\* decision to call shutdown().
SpecLoop ==
    /\ InitLoop
    /\ [][NextLoop]_vars
    /\ WF_vars(LoadStoredData)
    /\ WF_vars(\E model \in EngineModels : DetectCentralUnit(model))
    /\ WF_vars(CreateDevices)
    /\ WF_vars(ReaderStart)
    /\ WF_vars(ReaderCheckStop)
    /\ WF_vars(ReaderClear)
    /\ WF_vars(ReaderSleep)
    /\ WF_vars(KeepaliveStart)
    /\ WF_vars(KeepaliveCheckStop)
    /\ WF_vars(KeepaliveWaitBegin)
    /\ WF_vars(KeepaliveWaitTimeout)
    /\ WF_vars(\E written \in BOOLEAN : KeepaliveSend(written))
    /\ WF_vars(KeepaliveSleep)
    /\ WF_vars(ShutdownSend)
    /\ WF_vars(ShutdownJoin)

\* C7: after shutdown() has set the stop flag, the read loop and the
\* keepalive loop both exit and shutdown() returns, whatever the loops were
\* doing when the flag was set.
C7_ShutdownCompletes ==
    stop_event ~> (rp_pc = "exited" /\ ka_pc = "exited" /\ sd_pc = "returned")

\* C11: while the stop flag is unset neither loop exits, whatever the
\* transport does: a failure of a read, of opening the stream or of a
\* keepalive write is caught, a failure in the read loop marks the health
\* degraded, and the loop goes on to its next iteration.
C11_LoopsSurviveFailures ==
    [][/\ ~stop_event =>
            /\ rp_pc' = "exited" => rp_pc = "exited"
            /\ ka_pc' = "exited" => ka_pc = "exited"
       /\ ReaderReadError => (last_update_success' = FALSE /\ rp_pc' = "sleep")
       /\ KeepaliveSend(FALSE) => ka_pc' = "check"
      ]_vars

\* C16: the keepalive loop writes only after its wait on the "currently
\* updating" event has run its whole interval with the event never set: the
\* event is clear all the time the loop waits, a packet is chosen and
\* written only out of such a wait, and once the event has been set during
\* the interval (even if cleared again) the loop writes nothing, leaves its
\* counter alone and only sleeps.
C16_KeepaliveOnlyWhenIdle ==
    /\ [](ka_pc = "waiting" => ~data_updating_event)
    /\ [][/\ (ka_pc' = "send" /\ ka_pc # "send") => (ka_pc = "waiting" /\ ~data_updating_event)
          /\ (last_sent' # last_sent /\ sd_pc' = sd_pc) => ka_pc = "send"
          /\ (ka_pc = "wait" /\ data_updating_event) => ka_pc' \in {"wait", "sleep"}
          /\ ka_pc = "sleep" =>
                /\ ka_pc' \in {"sleep", "check"}
                /\ last_sent' = last_sent \/ sd_pc' # sd_pc
                /\ counter' = counter
         ]_vars

\* A keepalive has been written earlier; in the present round the event was
\* set while the loop waited and has been cleared again by the next read,
\* and the loop sleeps.
C16_Witness ==
    /\ last_sent = KeepalivePlain
    /\ ka_pc = "sleep"
    /\ rp_pc = "read"
    /\ ~data_updating_event

\* C17: the keepalive loop sends the packet with the code only when its
\* counter is 0 and no section is triggered or pending, and the plain
\* keepalive otherwise; the counter grows by one per send and only then,
\* wrapping at 60; at least 59 plain keepalives have been sent between two
\* packets with the code; no packet with the code is sent while an alarm is
\* active.
C17_HeavyOnlyAtZeroWhenQuiet ==
    [][/\ KeepaliveSend(TRUE) =>
            /\ last_sent' \in {KeepaliveWithCode, KeepalivePlain}
            /\ last_sent' = KeepaliveWithCode =>
                  /\ counter = 0
                  /\ \A n \in 1..MAX_SECTIONS :
                        _create_section_alarm_id(n) \in DOMAIN states =>
                            states[_create_section_alarm_id(n)]
                                \notin {STATE_ALARM_TRIGGERED, STATE_ALARM_PENDING}
            /\ (last_sent' = KeepaliveWithCode /\ polls_since_heavy # -1) =>
                  polls_since_heavy >= KeepaliveCounterWrap - 1
       /\ (counter' # counter /\ ka_pc # "idle") =>
            /\ KeepaliveSend(TRUE)
            /\ counter' = (counter + 1) % KeepaliveCounterWrap
      ]_vars

\* C17 as the loop has it: the packet is chosen when the wait has timed
\* out, the one with the code exactly when the counter is 0 and no section
\* enumerated at startup is triggered or pending at that moment, the plain
\* keepalive otherwise, and the chosen packet is what a successful write
\* sends; the counter grows by one per write attempted, failed ones
\* included, wrapping at 60; so between two packets with the code lie at
\* least 59 attempts, each a plain keepalive sent or a write that failed.
C17_HeavyOnlyAtZeroWhenQuietAtChoice ==
    [][/\ KeepaliveWaitTimeout =>
            LET quiet == \A i \in DOMAIN alarm_control_panels :
                             states[_create_section_alarm_id(alarm_control_panels[i])]
                                 \notin {STATE_ALARM_TRIGGERED, STATE_ALARM_PENDING}
            IN  /\ ka_packet' \in {KeepaliveWithCode, KeepalivePlain}
                /\ ka_packet' = KeepaliveWithCode <=> (counter = 0 /\ quiet)
       /\ KeepaliveSend(TRUE) =>
            /\ last_sent' = ka_packet
            /\ ka_packet = KeepaliveWithCode => counter = 0
            /\ (ka_packet = KeepaliveWithCode /\ polls_since_heavy # -1) =>
                  polls_since_heavy + failures_since_heavy >= KeepaliveCounterWrap - 1
       /\ (counter' # counter /\ ka_pc # "idle") =>
            /\ \E written \in BOOLEAN : KeepaliveSend(written)
            /\ counter' = (counter + 1) % KeepaliveCounterWrap
      ]_vars

\* The second packet with the code is about to be written, after a round
\* of the counter in which a write has failed.
C17_Witness ==
    /\ ka_pc = "send"
    /\ ka_packet = KeepaliveWithCode
    /\ polls_since_heavy >= 0
    /\ failures_since_heavy > 0

-----------------------------------------------------------------------------
(* The writers of the transport.  _send_packet opens the serial port for   *)
(* writing, writes the packet into the stream's buffer, sleeps 0.1 s and   *)
(* closes the stream.  It is called by _keepalive in its pool thread, by   *)
(* modify_alarm_control_panel_section_state in the thread of the host that *)
(* serves the command, and by shutdown().  A call is taken in three steps. *)

\* The command the host sends in this specification: arm section 1 away.
CommandPacket ==
    modify_alarm_control_panel_section_state(1, STATE_ALARM_ARMED_AWAY, <<1, 2, 3, 4>>).packet

\* The caller stands in its call of _send_packet.
InSendPacket(w) ==
    CASE w = "keepalive" -> ka_pc = "send"
      [] w = "shutdown" -> sd_pc = "send"
      [] w = "command" -> eng_pc = "running"

\* stream = open(self._config[CONF_SERIAL_PORT], "wb"), line 613.  A command
\* is accepted until shutdown() is called.
SendOpen(w) ==
    /\ InSendPacket(w)
    /\ send_pc[w] = "idle"
    /\ w = "command" => sd_pc = "idle"
    /\ send_pc' = [send_pc EXCEPT ![w] = "opened"]
    /\ UNCHANGED <<engine_vars, loop_vars, send_frame>>

\* stream.write(packet); time.sleep(0.1), lines 615-616.
SendWrite(w) ==
    /\ send_pc[w] = "opened"
    /\ send_pc' = [send_pc EXCEPT ![w] = "written"]
    /\ UNCHANGED <<engine_vars, loop_vars, send_frame>>

\* stream.close() in the call of _keepalive, line 618: the packet is out,
\* and _keepalive goes on to counter += 1.
KeepaliveSendClose ==
    /\ send_pc["keepalive"] = "written"
    /\ send_pc' = [send_pc EXCEPT !["keepalive"] = "idle"]
    /\ KeepaliveSent(TRUE)
    /\ UNCHANGED <<engine_vars, send_frame>>

\* stream.close() in the call of shutdown(), line 618.
ShutdownSendClose ==
    /\ send_pc["shutdown"] = "written"
    /\ send_pc' = [send_pc EXCEPT !["shutdown"] = "idle"]
    /\ ShutdownSent
    /\ UNCHANGED <<engine_vars, send_frame>>

\* stream.close() in the call of modify_alarm_control_panel_section_state,
\* line 618; the method returns.
CommandSendClose ==
    /\ send_pc["command"] = "written"
    /\ send_pc' = [send_pc EXCEPT !["command"] = "idle"]
    /\ last_sent' = CommandPacket
    /\ UNCHANGED <<stop_event, data_updating_event, rp_pc, ka_pc, counter, sd_pc>>
    /\ UNCHANGED <<ka_packet, polls_since_heavy, failures_since_heavy>>
    /\ UNCHANGED <<engine_vars, send_frame>>

NextWriters ==
    \/ LoadStoredData
    \/ \E model \in EngineModels : DetectCentralUnit(model)
    \/ DetectSections(JABLOTRON_PACKET_SECTIONS_STATES_PREFIX \o <<1, 0>> \o UnusedSection)
    \/ CreateDevices
    \/ ReaderStart
    \/ ReaderCheckStop
    \/ ReaderClear
    \/ ReaderRead(JABLOTRON_PACKET_SECTIONS_STATES_PREFIX \o <<1, 0>> \o UnusedSection)
    \/ ReaderSleep
    \/ KeepaliveStart
    \/ KeepaliveCheckStop
    \/ KeepaliveWaitBegin
    \/ KeepaliveWaitTimeout
    \/ KeepaliveSleep
    \/ \E w \in Writers : SendOpen(w)
    \/ \E w \in Writers : SendWrite(w)
    \/ KeepaliveSendClose
    \/ CommandSendClose
    \/ ShutdownSetStop
    \/ ShutdownSendClose
    \/ ShutdownJoin

SpecWriters == InitLoop /\ [][NextWriters]_vars

\* C26: at most one caller of _send_packet has the transport open at any
\* moment: the open/write/close sequences of the keepalive send, of the
\* command send and of the shutdown send never overlap.
C26_OneWriterAtATime ==
    Cardinality({w \in Writers : send_pc[w] # "idle"}) <= 1

-----------------------------------------------------------------------------
(* The detection probes: check_serial_port, _detect_central_unit and       *)
(* _detect_sections.  Each submits a reader task and a writer task to a    *)
(* pool, waits a bounded time for the reader's result, and in its finally  *)
(* sets the stop event and shuts the pool down.                            *)

JABLOTRON_INFO_MODEL == <<2>>
JABLOTRON_INFO_HARDWARE_VERSION == <<8>>
JABLOTRON_INFO_FIRMWARE_VERSION == <<9>>

\* The exceptions of .errors
ModelNotDetected == "ModelNotDetected"
ModelNotSupported == "ModelNotSupported"
ServiceUnavailable == "ServiceUnavailable"
ShouldNotHappen == "ShouldNotHappen"

\* What reader.result(TIMEOUT) raises when the wait expires.
FuturesTimeoutError == "concurrent.futures.TimeoutError"

\* except (IndexError, FileNotFoundError, IsADirectoryError,
\*         UnboundLocalError, OSError): whether the clause catches `exc`.
\* concurrent.futures.TimeoutError is the builtin TimeoutError, an OSError,
\* from Python 3.11 on, and a class of its own before.
CaughtAsServiceUnavailable(exc) ==
    \/ exc \in {"IndexError", "FileNotFoundError", "IsADirectoryError", "UnboundLocalError",
                "OSError"}
    \/ exc = FuturesTimeoutError /\ timeout_is_oserror

\* decode_info_bytes from index i on (1-based): the text up to the first
\* 00 or 40 byte; ok is FALSE when letter.decode() raises UnicodeDecodeError
\* on the way, which it does for a byte of 80 or more.
RECURSIVE DecodeInfoBytesFrom(_, _)
DecodeInfoBytesFrom(value, i) ==
    IF i > Len(value) THEN [ok |-> TRUE, info |-> <<>>]
    ELSE LET letter == <<value[i]>>
         IN  IF letter = <<0>> \/ letter = JABLOTRON_PACKET_INFO_PREFIX
             THEN [ok |-> TRUE, info |-> <<>>]
             ELSE IF value[i] >= 128 THEN [ok |-> FALSE, info |-> <<>>]
             ELSE LET rest == DecodeInfoBytesFrom(value, i + 1)
                  IN  [ok |-> rest.ok, info |-> IF rest.ok THEN letter \o rest.info ELSE <<>>]

decode_info_bytes(value) == DecodeInfoBytesFrom(value, 1)

\* "JA-10" in ASCII.
JA10 == <<74, 65, 45, 49, 48>>

\* A match of the model against JA-10 and any one character.
ModelMatchesAnySixth(model) ==
    /\ Len(model) >= 6
    /\ SubSeq(model, 1, 5) = JA10

\* re.match(r"^JA-10[1367]", model)
ModelMatches(model) ==
    /\ Len(model) >= 6
    /\ SubSeq(model, 1, 5) = JA10
    /\ model[6] \in {49, 51, 54, 55}

\* One read of check_serial_port.reader_thread: the locals after it and
\* whether the loop is left.
ReadModelPacket(locals, packet) ==
    IF Slice(packet, 0, 1) = JABLOTRON_PACKET_INFO_PREFIX /\ Slice(packet, 2, 3) = JABLOTRON_INFO_MODEL
    THEN LET decoded == decode_info_bytes(SliceFrom(packet, 3))
         IN  IF decoded.ok
             THEN [locals |-> [locals EXCEPT !.model = Some(decoded.info)], break |-> TRUE]
             ELSE [locals |-> locals, break |-> FALSE]      \* Try again
    ELSE [locals |-> locals, break |-> FALSE]

\* The two loops over the info packets of one read of
\* _detect_central_unit.reader_thread, from offset i (0-based) on.
RECURSIVE ReadInfoPackets(_, _, _)
ReadInfoPackets(locals, packet, i) ==
    IF i >= Len(packet) THEN locals
    ELSE IF Slice(packet, i, i + 1) # JABLOTRON_PACKET_INFO_PREFIX
    THEN ReadInfoPackets(locals, packet, i + 1)
    ELSE LET info_packet == SliceFrom(packet, i)
             type == Slice(info_packet, 2, 3)
             decoded == decode_info_bytes(SliceFrom(info_packet, 3))
             after ==
                IF ~decoded.ok THEN locals
                ELSE IF type = JABLOTRON_INFO_MODEL
                THEN [locals EXCEPT !.model = Some(decoded.info)]
                ELSE IF type = JABLOTRON_INFO_HARDWARE_VERSION
                THEN [locals EXCEPT !.hardware_version = Some(decoded.info)]
                ELSE IF type = JABLOTRON_INFO_FIRMWARE_VERSION
                THEN [locals EXCEPT !.firmware_version = Some(decoded.info)]
                ELSE locals
         IN  ReadInfoPackets(after, packet, i + 1)

\* A reader that is content with the model.
ReadCentralUnitPacket_model_only(locals, packet) ==
    LET after == IF Slice(packet, 0, 1) = JABLOTRON_PACKET_INFO_PREFIX
                 THEN ReadInfoPackets(locals, packet, 0)
                 ELSE locals
    IN  [locals |-> after, break |-> after.model.has]

ReadCentralUnitPacket(locals, packet) ==
    LET after == IF Slice(packet, 0, 1) = JABLOTRON_PACKET_INFO_PREFIX
                 THEN ReadInfoPackets(locals, packet, 0)
                 ELSE locals
    IN  [locals |-> after,
         break |-> after.model.has /\ after.hardware_version.has /\ after.firmware_version.has]

ReadSectionsPacket(locals, packet) ==
    IF Slice(packet, 0, 2) = JABLOTRON_PACKET_SECTIONS_STATES_PREFIX
    THEN [locals |-> [locals EXCEPT !.states_packet = Some(packet)], break |-> TRUE]
    ELSE [locals |-> locals, break |-> FALSE]

ReadProbePacket(locals, packet) ==
    CASE probe_kind = "model" -> ReadModelPacket(locals, packet)
      [] probe_kind = "central_unit" -> ReadCentralUnitPacket(locals, packet)
      [] OTHER -> ReadSectionsPacket(locals, packet)

\* What reader_thread returns.
ReaderReturn(locals) ==
    CASE probe_kind = "model" -> locals.model
      [] probe_kind = "central_unit" ->
            IF locals.model.has /\ locals.hardware_version.has /\ locals.firmware_version.has
            THEN Some(<<locals.model.val, locals.hardware_version.val, locals.firmware_version.val>>)
            ELSE NoValue
      [] OTHER -> locals.states_packet

\* What the panel may answer a model probe with: JA-10 and a sixth
\* character (a digit or K), then nothing, more text, text ended by 00 with
\* bytes behind it, a byte that is no text, or a 40 with such a byte behind
\* it; and some texts that are not of that form.
ModelPayloads ==
    {JA10 \o <<sixth>> \o tail :
        sixth \in (48..57) \cup {75},
        tail \in {<<>>, <<75>>, <<75, 45, 76, 65, 78>>, <<75, 0, 200>>, <<200>>, <<64, 200>>}}
    \cup {<<>>, JA10, <<74, 65, 45, 56, 48>>, <<88>> \o JA10 \o <<49>>, <<0>> \o JA10 \o <<49>>,
          <<200>> \o JA10 \o <<49>>}

InfoPacket(type, payload) == JABLOTRON_PACKET_INFO_PREFIX \o <<Len(payload) + 1>> \o type \o payload

ProbeSectionsStatesPacket == JABLOTRON_PACKET_SECTIONS_STATES_PREFIX \o <<1, 0>> \o UnusedSection

\* What a read of a probe's reader may return.
ProbeReadPackets ==
    CASE probe_kind = "model" ->
            {<<>>, ProbeSectionsStatesPacket, InfoPacket(JABLOTRON_INFO_HARDWARE_VERSION, <<72>>)}
            \cup {InfoPacket(JABLOTRON_INFO_MODEL, payload) : payload \in ModelPayloads}
      [] probe_kind = "central_unit" ->
            {<<>>, ProbeSectionsStatesPacket,
             InfoPacket(JABLOTRON_INFO_MODEL, JA10 \o <<49, 75>>),
             InfoPacket(JABLOTRON_INFO_HARDWARE_VERSION, <<72>>),
             InfoPacket(JABLOTRON_INFO_HARDWARE_VERSION, <<200>>),
             InfoPacket(JABLOTRON_INFO_FIRMWARE_VERSION, <<70>>),
             InfoPacket(JABLOTRON_INFO_FIRMWARE_VERSION, <<>>),
             InfoPacket(JABLOTRON_INFO_MODEL, JA10 \o <<49, 75, 45, 76, 65, 78>>)
                \o InfoPacket(JABLOTRON_INFO_HARDWARE_VERSION, <<73>>)
                \o InfoPacket(JABLOTRON_INFO_FIRMWARE_VERSION, <<71>>)}
      [] OTHER ->
            {<<>>, ProbeSectionsStatesPacket, InfoPacket(JABLOTRON_INFO_MODEL, JA10 \o <<49, 75>>)}

\* reader = thread_pool_executor.submit(reader_thread);
\* thread_pool_executor.submit(writer_thread)
ProbeSubmit ==
    /\ main_pc = "idle"
    /\ main_pc' = "result"
    /\ preader_pc' = "open"
    /\ pwriter_pc' = "check"
    /\ UNCHANGED <<probe_kind, timeout_is_oserror, probe_stop_event, main_error, probe_result,
                   timed_out, preader_exception, reader_locals>>
    /\ UNCHANGED probe_frame

\* reader_thread: stream = open(serial_port, "rb"), which raises when the
\* device is not there.
ProbeReaderOpen(opened) ==
    /\ preader_pc = "open"
    /\ IF opened
       THEN preader_pc' = "loop" /\ UNCHANGED preader_exception
       ELSE preader_pc' = "done" /\ preader_exception' = "FileNotFoundError"
    /\ UNCHANGED <<probe_kind, timeout_is_oserror, probe_stop_event, main_pc, main_error,
                   probe_result, timed_out, reader_locals, pwriter_pc>>
    /\ UNCHANGED probe_frame

\* reader_thread: while not stop_event.is_set()
ProbeReaderCheckStop ==
    /\ preader_pc = "loop"
    /\ preader_pc' = IF probe_stop_event THEN "done" ELSE "read"
    /\ UNCHANGED <<probe_kind, timeout_is_oserror, probe_stop_event, main_pc, main_error,
                   probe_result, timed_out, preader_exception, reader_locals, pwriter_pc>>
    /\ UNCHANGED probe_frame

\* reader_thread: the blocking read returns `packet`.
ProbeReaderRead(packet) ==
    /\ preader_pc = "read"
    /\ LET read == ReadProbePacket(reader_locals, packet)
       IN  /\ reader_locals' = read.locals
           /\ preader_pc' = IF read.break THEN "done" ELSE "loop"
    /\ UNCHANGED <<probe_kind, timeout_is_oserror, probe_stop_event, main_pc, main_error,
                   probe_result, timed_out, preader_exception, pwriter_pc>>
    /\ UNCHANGED probe_frame

\* reader_thread: the blocking read raises (the device has gone).
ProbeReaderReadError ==
    /\ preader_pc = "read"
    /\ preader_pc' = "done"
    /\ preader_exception' = "OSError"
    /\ UNCHANGED <<probe_kind, timeout_is_oserror, probe_stop_event, main_pc, main_error,
                   probe_result, timed_out, reader_locals, pwriter_pc>>
    /\ UNCHANGED probe_frame

\* writer_thread: one round of its loop; the write raises when the device
\* is not there, which ends the task.
ProbeWriterRound(written) ==
    /\ pwriter_pc = "check"
    /\ IF probe_stop_event
       THEN written /\ pwriter_pc' = "done"
       ELSE pwriter_pc' = IF written THEN "sleep" ELSE "done"
    /\ UNCHANGED <<probe_kind, timeout_is_oserror, probe_stop_event, main_pc, main_error,
                   probe_result, timed_out, preader_pc, preader_exception, reader_locals>>
    /\ UNCHANGED probe_frame

\* writer_thread: time.sleep(1) is over.
ProbeWriterSleep ==
    /\ pwriter_pc = "sleep"
    /\ pwriter_pc' = "check"
    /\ UNCHANGED <<probe_kind, timeout_is_oserror, probe_stop_event, main_pc, main_error,
                   probe_result, timed_out, preader_pc, preader_exception, reader_locals>>
    /\ UNCHANGED probe_frame

\* reader.result(TIMEOUT) returns, or re-raises what reader_thread raised;
\* check_serial_port then judges the model, still inside the try.
ProbeResult ==
    /\ main_pc = "result"
    /\ preader_pc = "done"
    /\ LET result == ReaderReturn(reader_locals)
           raised ==
              IF preader_exception # NONE THEN preader_exception
              ELSE IF probe_kind # "model" THEN NONE
              ELSE IF ~result.has THEN ModelNotDetected
              ELSE IF ~ModelMatches(result.val) THEN ModelNotSupported
              ELSE NONE
       IN  /\ probe_result' = IF preader_exception # NONE THEN probe_result ELSE result
           /\ main_error' = IF CaughtAsServiceUnavailable(raised) THEN ServiceUnavailable
                            ELSE raised
    /\ main_pc' = "finally"
    /\ UNCHANGED <<probe_kind, timeout_is_oserror, probe_stop_event, timed_out, preader_pc,
                   preader_exception, reader_locals, pwriter_pc>>
    /\ UNCHANGED probe_frame

\* reader.result(TIMEOUT) raises its timeout: the reader is not done.
ProbeTimeout ==
    /\ main_pc = "result"
    /\ preader_pc # "done"
    /\ timed_out' = TRUE
    /\ main_error' = IF CaughtAsServiceUnavailable(FuturesTimeoutError) THEN ServiceUnavailable
                     ELSE FuturesTimeoutError
    /\ main_pc' = "finally"
    /\ UNCHANGED <<probe_kind, timeout_is_oserror, probe_stop_event, probe_result, preader_pc,
                   preader_exception, reader_locals, pwriter_pc>>
    /\ UNCHANGED probe_frame

\* finally: stop_event.set()
ProbeFinally ==
    /\ main_pc = "finally"
    /\ probe_stop_event' = TRUE
    /\ main_pc' = "shutdown"
    /\ UNCHANGED <<probe_kind, timeout_is_oserror, main_error, probe_result, timed_out,
                   preader_pc, preader_exception, reader_locals, pwriter_pc>>
    /\ UNCHANGED probe_frame

\* A shutdown of the pool that does not wait for its tasks.
ProbeShutdown_without_join ==
    /\ main_pc = "shutdown"
    /\ main_error' = IF main_error # NONE THEN main_error
                     ELSE IF probe_kind # "model" /\ ~probe_result.has THEN ShouldNotHappen
                     ELSE NONE
    /\ main_pc' = "done"
    /\ UNCHANGED <<probe_kind, timeout_is_oserror, probe_stop_event, probe_result, timed_out,
                   preader_pc, preader_exception, reader_locals, pwriter_pc>>
    /\ UNCHANGED probe_frame

\* finally: thread_pool_executor.shutdown() returns once both tasks have
\* ended; the pending exception, if any, is raised; _detect_central_unit
\* and _detect_sections raise ShouldNotHappen on a None result.
ProbeShutdown ==
    /\ main_pc = "shutdown"
    /\ preader_pc = "done"
    /\ pwriter_pc = "done"
    /\ main_error' = IF main_error # NONE THEN main_error
                     ELSE IF probe_kind # "model" /\ ~probe_result.has THEN ShouldNotHappen
                     ELSE NONE
    /\ main_pc' = "done"
    /\ UNCHANGED <<probe_kind, timeout_is_oserror, probe_stop_event, probe_result, timed_out,
                   preader_pc, preader_exception, reader_locals, pwriter_pc>>
    /\ UNCHANGED probe_frame

InitProbe ==
    /\ byteorder = "little"
    /\ SectionIdle
    /\ EngineIdle
    /\ CodecIdle
    /\ UpdateIdle
    /\ LoopIdle
    /\ SendIdle
    /\ probe_kind \in {"model", "central_unit", "sections"}
    /\ timeout_is_oserror \in BOOLEAN
    /\ ProbeNotStarted

NextProbe ==
    \/ ProbeSubmit
    \/ \E opened \in BOOLEAN : ProbeReaderOpen(opened)
    \/ ProbeReaderCheckStop
    \/ \E packet \in ProbeReadPackets : ProbeReaderRead(packet)
    \/ ProbeReaderReadError
    \/ \E written \in BOOLEAN : ProbeWriterRound(written)
    \/ ProbeWriterSleep
    \/ ProbeResult
    \/ ProbeTimeout
    \/ ProbeFinally
    \/ ProbeShutdown

\* The caller and the two tasks run on; the bounded wait does expire.
\* Nothing obliges the panel to send, so the return of a blocking read
\* carries no fairness.
SpecProbe ==
    /\ InitProbe
    /\ [][NextProbe]_vars
    /\ WF_vars(ProbeSubmit)
    /\ WF_vars(\E opened \in BOOLEAN : ProbeReaderOpen(opened))
    /\ WF_vars(ProbeReaderCheckStop)
    /\ WF_vars(\E written \in BOOLEAN : ProbeWriterRound(written))
    /\ WF_vars(ProbeWriterSleep)
    /\ WF_vars(ProbeResult)
    /\ WF_vars(ProbeTimeout)
    /\ WF_vars(ProbeFinally)
    /\ WF_vars(ProbeShutdown)

\* C8: every detection probe terminates: it returns control to its caller,
\* with success or with a failure, whatever the panel sends or does not
\* send.
C8_ProbeTerminates == <>(main_pc = "done")

\* C9: when the bounded wait of a probe expires, the probe ends with a
\* no-response condition of its own, which is not the transport-unavailable
\* failure (nor success, nor any other failure).
C9_TimeoutDistinct ==
    (main_pc = "done" /\ timed_out /\ preader_exception = NONE) =>
        main_error \in {ModelNotDetected, FuturesTimeoutError}

\* C10: the model probe succeeds only if the decoded model begins with
\* JA-101, JA-103, JA-106 or JA-107; for every other decoded model it fails
\* with the unsupported-model condition, which is neither the no-response
\* condition nor transport-unavailable.  A model reply is taken (the reader
\* stops with the text up to the first 00 or 40 byte) exactly when that
\* text has no byte of 80 or more; on any other read, an undecodable reply
\* included, the reader keeps its locals and goes on reading.
C10_ModelPrefixOnly ==
    [][/\ (probe_kind = "model" /\ main_pc' \in {"finally", "shutdown", "done"}
           /\ ~timed_out' /\ preader_exception' = NONE) =>
            LET accepted == {<<74, 65, 45, 49, 48, 49>>, <<74, 65, 45, 49, 48, 51>>,
                             <<74, 65, 45, 49, 48, 54>>, <<74, 65, 45, 49, 48, 55>>}
                model == probe_result'
                begins == \E prefix \in accepted :
                             /\ Len(model.val) >= Len(prefix)
                             /\ \A i \in DOMAIN prefix : model.val[i] = prefix[i]
            IN  /\ main_error' = NONE <=> (model.has /\ begins)
                /\ (model.has /\ ~begins) =>
                      /\ main_error' = ModelNotSupported
                      /\ main_error' \notin {ModelNotDetected, FuturesTimeoutError, ServiceUnavailable}
       /\ \A packet \in ProbeReadPackets :
            (probe_kind = "model" /\ ProbeReaderRead(packet)) =>
                LET is_model_reply == Len(packet) >= 3 /\ packet[1] = 64 /\ packet[3] = 2
                    ends == {i \in 4..Len(packet) : packet[i] \in {0, 64}} \cup {Len(packet) + 1}
                    end == CHOOSE i \in ends : \A j \in ends : i <= j
                    text == [i \in 1..(end - 4) |-> packet[i + 3]]
                    is_text == \A i \in DOMAIN text : text[i] < 128
                IN  IF is_model_reply /\ is_text
                    THEN preader_pc' = "done" /\ reader_locals'.model = Some(text)
                    ELSE preader_pc' = "loop" /\ reader_locals' = reader_locals
      ]_vars

\* C10 witness: the panel answered JA-102, the model probe has ended with
\* the unsupported-model failure.
C10_Witness ==
    /\ probe_kind = "model"
    /\ main_pc = "done"
    /\ probe_result = Some(<<74, 65, 45, 49, 48, 50>>)
    /\ main_error = "ModelNotSupported"

-----------------------------------------------------------------------------
(* initialize(): the stored data are loaded, the two probes run one after  *)
(* the other, each with its own pool, the devices are created and the two  *)
(* loops are started.                                                      *)

\* The model of the JablotronCentralUnit as text: what decode_info_bytes
\* made of its bytes.
CentralUnitModelText(info) ==
    IF info = JA10 \o <<49, 75, 45, 76, 65, 78>> THEN MODEL_LAN ELSE "JA-101K"

\* initialize() calls _detect_central_unit, and after its return
\* _detect_sections: a new stop event, a new pool, new tasks.
StartupCallProbe(kind) ==
    /\ \/ kind = "central_unit" /\ eng_pc = "loaded" /\ probe_kind = NONE /\ main_pc = "idle"
       \/ kind = "sections" /\ eng_pc = "central_unit" /\ probe_kind = "central_unit"
            /\ main_pc = "done"
    /\ probe_kind' = kind
    /\ probe_stop_event' = FALSE
    /\ main_pc' = "idle"
    /\ main_error' = NONE
    /\ probe_result' = NoValue
    /\ timed_out' = FALSE
    /\ preader_pc' = "idle"
    /\ preader_exception' = NONE
    /\ reader_locals' = ReaderLocalsInit
    /\ pwriter_pc' = "idle"
    /\ UNCHANGED timeout_is_oserror
    /\ UNCHANGED probe_frame

\* _detect_central_unit has returned without raising: initialize() goes on
\* with the central unit the reader returned.
StartupCentralUnitDetected ==
    /\ probe_kind = "central_unit"
    /\ main_pc = "done"
    /\ main_error = NONE
    /\ DetectCentralUnit(CentralUnitModelText(probe_result.val[1]))

\* The wait of _detect_sections has returned the packet and the pool is
\* shut down: the sections are made from the packet.
StartupSectionsDetected ==
    /\ probe_kind = "sections"
    /\ main_pc = "done"
    /\ main_error = NONE
    /\ DetectSections(probe_result.val)

InitStartup ==
    /\ byteorder = "little"
    /\ SectionIdle
    /\ CodecIdle
    /\ UpdateIdle
    /\ LoopIdle
    /\ SendIdle
    /\ EngineInit
    /\ durable = Absent
    /\ probe_kind = NONE
    /\ timeout_is_oserror \in BOOLEAN
    /\ ProbeNotStarted

NextStartup ==
    \/ LoadStoredData
    \/ \E kind \in {"central_unit", "sections"} : StartupCallProbe(kind)
    \/ probe_kind # NONE /\ ProbeSubmit
    \/ \E opened \in BOOLEAN : ProbeReaderOpen(opened)
    \/ ProbeReaderCheckStop
    \/ \E packet \in ProbeReadPackets : ProbeReaderRead(packet)
    \/ ProbeReaderReadError
    \/ \E written \in BOOLEAN : ProbeWriterRound(written)
    \/ ProbeWriterSleep
    \/ ProbeResult
    \/ ProbeTimeout
    \/ ProbeFinally
    \/ ProbeShutdown
    \/ StartupCentralUnitDetected
    \/ StartupSectionsDetected
    \/ CreateDevices
    \/ ReaderStart
    \/ ReaderStartError
    \/ ReaderCheckStop
    \/ ReaderClear
    \/ \E packet \in {<<>>, ProbeSectionsStatesPacket} : ReaderRead(packet)
    \/ ReaderSleep
    \/ KeepaliveStart
    \/ KeepaliveCheckStop

SpecStartup == InitStartup /\ [][NextStartup]_vars

\* The reader of the running probe has its stream open.
ProbeStreamOpen == preader_pc \in {"loop", "read"}

\* _read_packets has its stream open.
LoopStreamOpen == rp_pc \in {"outer", "inner", "read", "sleep"}

\* C18: at most one reader has the transport open at any moment: when a
\* probe is called the tasks of the probe before it have ended (its reader
\* has closed its stream), the loops are started only after the sections
\* probe, the last one, has returned without failure with both its tasks
\* ended, and after a probe that failed the loops are not started.
C18_OneReaderAtATime ==
    /\ [](~(ProbeStreamOpen /\ LoopStreamOpen))
    /\ []((rp_pc # "idle" \/ ka_pc # "idle") =>
            /\ probe_kind = "sections"
            /\ main_pc = "done"
            /\ main_error = NONE
            /\ preader_pc = "done"
            /\ pwriter_pc = "done")
    /\ []((main_pc = "done" /\ main_error # NONE) =>
            /\ eng_pc \in {"loaded", "central_unit"}
            /\ rp_pc = "idle"
            /\ ka_pc = "idle")
    /\ [][probe_kind' # probe_kind =>
            \/ probe_kind = NONE
            \/ /\ main_pc = "done"
               /\ main_error = NONE
               /\ preader_pc = "done"
               /\ pwriter_pc = "done"
         ]_vars

\* Both probes have returned and the read loop is in its read, with the
\* keepalive loop started.
C18_Witness ==
    /\ probe_kind = "sections"
    /\ preader_pc = "done"
    /\ rp_pc = "read"
    /\ ka_pc = "wait"

\* The three fields of the central unit are all there.
AllCollected(locals) ==
    locals.model.has /\ locals.hardware_version.has /\ locals.firmware_version.has

\* C19: the reader of _detect_central_unit leaves its loop on a read only
\* when model, hardware version and firmware version have all been
\* collected, in that read or over several, and reads on while one is
\* missing; the probe returns without failure only with all three, and the
\* engine's central unit is set only from such a result.
C19_AllThreeFields ==
    /\ [][(probe_kind = "central_unit" /\ preader_pc = "read" /\ preader_pc' # "read"
             /\ preader_exception' = NONE) =>
            /\ preader_pc' = "done" <=> AllCollected(reader_locals')
            /\ preader_pc' = "loop" <=> ~AllCollected(reader_locals')
         ]_vars
    /\ []((probe_kind = "central_unit" /\ main_pc = "done" /\ main_error = NONE) =>
            /\ AllCollected(reader_locals)
            /\ probe_result = Some(<<reader_locals.model.val, reader_locals.hardware_version.val,
                                     reader_locals.firmware_version.val>>))
    /\ [][central_unit_model' # central_unit_model =>
            /\ probe_kind = "central_unit"
            /\ AllCollected(reader_locals)
            /\ central_unit_model' = CentralUnitModelText(reader_locals.model.val)
         ]_vars

\* The central unit has been set from fields that came in three reads (the
\* values are those of the separate packets).
C19_Witness ==
    /\ central_unit_model = "JA-101K"
    /\ probe_kind = "central_unit"
    /\ probe_result = Some(<<JA10 \o <<49, 75>>, <<72>>, <<70>>>>)

====
